---- MODULE Spec2Model ----
(***************************************************************************)
(* Build-and-release orchestrator of Hello-scikit-learn (src/src/package). *)
(*                                                                         *)
(* Strings that the code joins with "-" and splits on "-" are kept as the  *)
(* sequence of their hyphen-free segments: "linux-x86_64" is               *)
(* <<"linux", "x86_64">>, f"{a}-{b}" is a \o b and s.split("-") is the     *)
(* sequence itself.  Python's None is the empty set and a present value x  *)
(* is {x}.  Log messages are written in English.                           *)
(***************************************************************************)
EXTENDS Integers, Sequences, FiniteSets, TLC

VARIABLES
    host,            \* what platform.system() and platform.machine() answer
    main_scripts,    \* config.MAIN_SCRIPTS of the injected configuration
    project_version, \* config.PROJECT_VERSION of the injected configuration
    scriptsOnDisk,   \* the script files that exist in the working directory
    distDirs,        \* subdirectories of dist/ that exist
    distFiles,       \* executables under dist/, each [path, mode]
    topDirs,         \* which of build/, dist/, temp/ exist
    buildEntries,    \* the entries of build/ : name -> [isdir, mtime]
    otherFiles,      \* other files of the working tree, each [dir, sub, name]
    metaFiles,       \* packages/*.json : file name -> record
    archives,        \* packages/*.zip, *.tar.gz, *.tgz : <<base name, ext>>
    junkFiles,       \* packages/*.json files whose content is not a record
    clock,           \* the wall clock read by datetime.now()
    builder,         \* the builder in use: None or {[kind, platform_name, arch]}
    pc,              \* position inside the running call
    idx,             \* index of the next script of the build loop
    results,         \* the local list `results` of build_all_executables
    invoked,         \* bundler invocations made by the running build pass
    log,             \* what the running build pass has logged, in order
    lastRun,         \* the last bundler run of the pass: None or {[index, exit, stderr]}
    op,              \* the PackageManager / factory call in progress
    arg,             \* the argument of the call in progress, until the call last reads it
    builders,        \* CrossPlatformBuilder.builders : set of platform keys
    failedCtor,      \* platform keys whose builder construction raised
    todo,            \* platforms still to build in build_cross_platform
    all_results,     \* all_results of build_cross_platform, in insertion order
    saved,           \* file names written by _save_metadata in the running call
    ret,             \* the value the last call returned
    calls            \* number of top-level calls started

vars == << host, main_scripts, project_version, scriptsOnDisk, distDirs, distFiles,
           topDirs, buildEntries, otherFiles, junkFiles,
           metaFiles, archives, clock, builder, pc, idx, results, invoked, log, lastRun,
           op, arg, builders, failedCtor, todo, all_results, saved, ret, calls >>

fsVars    == << distDirs, distFiles, topDirs, buildEntries, otherFiles >>
storeVars == << metaFiles, archives, clock, junkFiles >>
crossVars == << builders, failedCtor, todo, all_results >>
cfgVars   == << host, main_scripts, project_version >>

(***************************************************************************)
(* Bounds of the model.                                                    *)
(***************************************************************************)
MaxScripts == 2      \* scripts of the configuration used by the build pass
MaxCalls   == 2      \* top-level calls per behaviour
MaxCrossCalls == 1   \* build_cross_platform calls per behaviour
MaxClock   == 1      \* ticks of the wall clock during builds
MaxKeep    == 2      \* largest keep_latest passed to clean_packages
MaxRecords == 3      \* metadata records in packages/
MaxArchives == 1     \* release archives in packages/
MaxStoreClock == 1   \* ticks of the wall clock while records are written
MaxResults == 3      \* longest result list handed to get_build_summary
MaxTreeCalls == 2    \* cleaning calls made on a working tree
MaxMtime == 1        \* latest modification time of a spec file found in build/
MaxManagerCalls == 2
MaxWrites == 3       \* records written to packages/ in the record store specification

None == {}
Some(x) == {x}
TheValue(o) == CHOOSE x \in o : TRUE

Min(a, b) == IF a < b THEN a ELSE b

(***************************************************************************)
(* str.lower() on the names that occur.                                    *)
(***************************************************************************)
LowerWord(w) ==
    CASE w \in {"Windows", "WINDOWS", "windows"} -> "windows"
      [] w \in {"Linux", "LINUX", "linux"}       -> "linux"
      [] w \in {"Darwin", "DARWIN", "darwin"}    -> "darwin"
      [] w \in {"MacOS", "MACOS", "macos"}       -> "macos"
      [] w \in {"FreeBSD", "freebsd"}            -> "freebsd"
      [] w \in {"CYGWIN_NT", "cygwin_nt"}        -> "cygwin_nt"
      [] w \in {"AMD64", "amd64"}                -> "amd64"
      [] w \in {"ARM64", "arm64"}                -> "arm64"
      [] w \in {"ZIP", "Zip", "zip"}             -> "zip"
      [] w \in {"TGZ", "tgz"}                    -> "tgz"
      [] OTHER                                   -> w

Lower(s) == [i \in 1..Len(s) |-> LowerWord(s[i])]

(***************************************************************************)
(* Hosts: the answers of platform.system() and platform.machine().         *)
(***************************************************************************)
Hosts ==
    { [system |-> <<"Linux">>,             machine |-> <<"x86_64">>],
      [system |-> <<"Windows">>,           machine |-> <<"AMD64">>],
      [system |-> <<"Darwin">>,            machine |-> <<"arm64">>],
      [system |-> <<"FreeBSD">>,           machine |-> <<"amd64">>],
      [system |-> <<"CYGWIN_NT", "10.0">>, machine |-> <<"x86_64">>] }

(***************************************************************************)
(* PackageConfig                                                           *)
(***************************************************************************)
PROJECT_NAME == <<"hello", "scikit", "learn">>

\* A script file name is <<stem, extension>>.
MAIN_SCRIPTS ==
    << <<"generate_data", ".py">>, <<"train_model", ".py">>, <<"predict", ".py">> >>

Versions == { <<"0.1.0">>, <<"0.2.0">>, <<"0.3.0">> }

Stem(script_name) == script_name[1]

\* Mutant: an unknown platform gets the windows entry.
get_platform_config_DefaultWindows(platform) ==
    IF platform \in { <<"linux">>, <<"macos">> }
    THEN [console |-> TRUE, executable_suffix |-> "", additional_options |-> << >>]
    ELSE [console |-> TRUE, executable_suffix |-> ".exe",
          additional_options |-> <<"--console">>]

get_platform_config(platform) ==
    CASE platform = <<"windows">> -> [console |-> TRUE, executable_suffix |-> ".exe",
                                      additional_options |-> <<"--console">>]
      [] platform = <<"linux">>   -> [console |-> TRUE, executable_suffix |-> "",
                                      additional_options |-> << >>]
      [] platform = <<"macos">>   -> [console |-> TRUE, executable_suffix |-> "",
                                      additional_options |-> << >>]
      [] OTHER                    -> [console |-> TRUE, executable_suffix |-> "",
                                      additional_options |-> << >>]

PYINSTALLER_BASE_OPTIONS == << <<"--onefile">>, <<"--clean">>, <<"--noconfirm">> >>

HIDDEN_IMPORTS ==
    << "sklearn.utils._cython_blas", "sklearn.neighbors.typedefs",
       "sklearn.neighbors.quad_tree", "sklearn.tree._utils",
       "pandas._libs.tslibs.timedeltas", "jieba", "loguru", "openpyxl", "numpy",
       "scipy", "joblib" >>

INCLUDE_DATA == << <<"src", "src">>, <<"config.py", ".">> >>

\* cmd.extend([a, b]) for every pair of a list of pairs.
RECURSIVE FlatPairs(_)
FlatPairs(pairs) ==
    IF pairs = << >> THEN << >>
    ELSE << pairs[1][1], pairs[1][2] >> \o FlatPairs(Tail(pairs))

\* The fixed part of the command up to the platform's options.  An element of
\* the command is the sequence of the pieces it is formatted from, its literal
\* beginning first.
CommandHead(script_name, platform, arch) ==
    << <<"pyinstaller">> >> \o PYINSTALLER_BASE_OPTIONS
    \o << <<"--distpath=", "dist/">> \o platform \o arch,
          <<"--workpath=", "build/", Stem(script_name)>>,
          <<"--specpath=", "build">>,
          <<"--name=", Stem(script_name)>> >>

CommandImports(pathsep) ==
    FlatPairs([ i \in 1..Len(HIDDEN_IMPORTS) |->
                  << <<"--hidden-import">>, <<HIDDEN_IMPORTS[i]>> >> ])
    \o FlatPairs([ i \in 1..Len(INCLUDE_DATA) |->
                    << <<"--add-data">>,
                       <<INCLUDE_DATA[i][1], pathsep, INCLUDE_DATA[i][2]>> >> ])

\* Mutant: the platform's options are added after the script.
get_build_command_OptionsLast(script_name, platform, arch, pathsep) ==
    CommandHead(script_name, platform, arch)
    \o CommandImports(pathsep)
    \o << script_name >>
    \o [ i \in 1..Len(get_platform_config(platform).additional_options) |->
           << get_platform_config(platform).additional_options[i] >> ]

\* PackageConfig.get_build_command; pathsep is os.pathsep of the host.
get_build_command(script_name, platform, arch, pathsep) ==
    CommandHead(script_name, platform, arch)
    \o [ i \in 1..Len(get_platform_config(platform).additional_options) |->
           << get_platform_config(platform).additional_options[i] >> ]
    \o CommandImports(pathsep)
    \o << script_name >>

AllExist(scripts, onDisk) == \A i \in 1..Len(scripts) : scripts[i] \in onDisk

\* Mutant: only the src directory is looked for.
config_validate_environment_SrcOnly(scripts, onDisk, srcExists) ==
    IF ~srcExists THEN FALSE ELSE TRUE

config_validate_environment(scripts, onDisk, srcExists) ==
    IF ~AllExist(scripts, onDisk) THEN FALSE
    ELSE IF ~srcExists THEN FALSE
    ELSE TRUE

(***************************************************************************)
(* BuildResult                                                             *)
(***************************************************************************)
BuildResult(script_name, success, error_message) ==
    [ script_name     |-> script_name,
      success         |-> success,
      error_message   |-> error_message,
      executable_path |-> None ]

\* An error message: its fixed wording, and the text, path or platform formatted into it.
Message(kind, text, path, platform) ==
    [kind |-> kind, text |-> text, path |-> path, platform |-> platform]

(***************************************************************************)
(* BaseBuilder                                                             *)
(***************************************************************************)
get_platform_info(h) ==
    LET system == Lower(h.system)
        arch   == Lower(h.machine)
    IN  IF system = <<"windows">> THEN <<<<"windows">>, arch>>
        ELSE IF system = <<"linux">> THEN <<<<"linux">>, arch>>
        ELSE IF system = <<"darwin">> THEN <<<<"macos">>, arch>>
        ELSE <<system, arch>>

\* Mutant: a builder takes its platform from its class, not from the host.
NewBuilder_PlatformOfClass(kind, h) ==
    [ kind          |-> kind,
      platform_name |-> CASE kind = "Windows" -> <<"windows">>
                          [] kind = "Linux"   -> <<"linux">>
                          [] kind = "MacOS"   -> <<"macos">>
                          [] OTHER            -> get_platform_info(h)[1],
      arch          |-> get_platform_info(h)[2] ]

NewBuilder(kind, h) ==
    [ kind          |-> kind,
      platform_name |-> get_platform_info(h)[1],
      arch          |-> get_platform_info(h)[2] ]

\* dist/{platform}-{arch}
PlatformDir(b) == b.platform_name \o b.arch

\* Path(DIST_DIR) / f"{platform}-{arch}" / (exe_name + suffix)
ExecutablePath(b, script_name) ==
    << PlatformDir(b),
       <<Stem(script_name), get_platform_config(b.platform_name).executable_suffix>> >>

\* What one run of the external bundler may do: its exit code, the text on its
\* standard error, and whether it created the output directory and the executable.
BundlerOutcomes ==
    { o \in [exit : {0, 1}, stderr : {"", "E"}, madeDir : BOOLEAN, wroteExe : BOOLEAN] :
        /\ o.wroteExe => o.madeDir
        /\ o.exit = 0 => o.stderr = "" }

\* str(e) of subprocess.CalledProcessError
StrCalledProcessError == "Command returned non-zero exit status"

\* Mutant: the exit code alone decides success, the output file is not looked for.
build_single_executable_TrustsExitCode(b, script_name, o, filesAfter) ==
    IF o.exit = 0
    THEN [ BuildResult(script_name, TRUE, None)
             EXCEPT !.executable_path = Some(ExecutablePath(b, script_name)) ]
    ELSE BuildResult(script_name, FALSE,
             Some(Message("build failed",
                          IF o.stderr # "" THEN o.stderr ELSE StrCalledProcessError,
                          << >>, << >>)))

\* Mutant: a successful result is returned without its executable path.
build_single_executable_NoPath(b, script_name, o, filesAfter) ==
    IF o.exit = 0
    THEN IF \E f \in filesAfter : f.path = ExecutablePath(b, script_name)
         THEN BuildResult(script_name, TRUE, None)
         ELSE BuildResult(script_name, FALSE,
                  Some(Message("output file not found", "",
                               ExecutablePath(b, script_name), << >>)))
    ELSE BuildResult(script_name, FALSE,
             Some(Message("build failed",
                          IF o.stderr # "" THEN o.stderr ELSE StrCalledProcessError,
                          << >>, << >>)))

\* The BuildResult of BaseBuilder.build_single_executable, given what the bundler
\* did and the files under dist/ after it ran.
base_build_single_executable(b, script_name, o, filesAfter) ==
    IF o.exit = 0
    THEN IF \E f \in filesAfter : f.path = ExecutablePath(b, script_name)
         THEN [ BuildResult(script_name, TRUE, None)
                  EXCEPT !.executable_path = Some(ExecutablePath(b, script_name)) ]
         ELSE BuildResult(script_name, FALSE,
                  Some(Message("output file not found", "",
                               ExecutablePath(b, script_name), << >>)))
    ELSE BuildResult(script_name, FALSE,
             Some(Message("build failed",
                          IF o.stderr # "" THEN o.stderr ELSE StrCalledProcessError,
                          << >>, << >>)))

\* The variants' post-processing: Linux and macOS set the mode to 0o755.
PostProcess(b, r, files) ==
    IF r.success /\ r.executable_path # None /\ b.kind \in {"Linux", "MacOS"}
    THEN { IF f.path = TheValue(r.executable_path) THEN [f EXCEPT !.mode = "0755"] ELSE f :
             f \in files }
    ELSE files

\* --workpath=build/{exe_name} and --specpath=build: a run of the bundler leaves
\* its work directory and the script's spec file in build/.
BundlerWorkFiles(entries, script_name, now) ==
    LET spec == <<Stem(script_name), ".spec">>
        work == <<Stem(script_name), "">>
    IN  [ n \in DOMAIN entries \cup {spec, work} |->
            IF n = spec THEN [isdir |-> FALSE, mtime |-> now]
            ELSE IF n = work THEN [isdir |-> TRUE, mtime |-> now]
            ELSE entries[n] ]

\* The files under dist/ once the bundler has run with outcome o.
AfterBundler(b, script_name, o, files) ==
    IF o.wroteExe
    THEN { f \in files : f.path # ExecutablePath(b, script_name) }
           \cup { [path |-> ExecutablePath(b, script_name), mode |-> "default"] }
    ELSE files

(***************************************************************************)
(* BuilderFactory                                                          *)
(***************************************************************************)
\* Mutant: the third platform is named as the builders name it.
get_supported_platforms_macos == << <<"windows">>, <<"linux">>, <<"macos">> >>

get_supported_platforms == << <<"windows">>, <<"linux">>, <<"darwin">> >>

\* Mutant: the name is compared without platform.lower().
create_builder_kind_CaseSensitive(platform, h) ==
    LET p == IF platform = None THEN Lower(h.system) ELSE TheValue(platform)
    IN  IF p = <<"windows">> THEN "Windows"
        ELSE IF p = <<"linux">> THEN "Linux"
        ELSE IF p = <<"darwin">> THEN "MacOS"
        ELSE "Base"

\* platform is None or {name}; the result is the kind of builder constructed.
create_builder_kind(platform, h) ==
    LET p == IF platform = None THEN Lower(h.system) ELSE Lower(TheValue(platform))
    IN  IF p = <<"windows">> THEN "Windows"
        ELSE IF p = <<"linux">> THEN "Linux"
        ELSE IF p = <<"darwin">> THEN "MacOS"
        ELSE "Base"

create_builder(platform, h) == NewBuilder(create_builder_kind(platform, h), h)

Range(s) == { s[i] : i \in 1..Len(s) }

SeqOfSet(order, set) == SelectSeq(order, LAMBDA x : x \in set)

RECURSIVE Gcd(_, _)
Gcd(a, b) == IF b = 0 THEN a ELSE Gcd(b, a % b)

\* The quotient n / d as the fraction in lowest terms.
Fraction(n, d) == IF n = 0 THEN <<0, 1>> ELSE <<n \div Gcd(n, d), d \div Gcd(n, d)>>

get_build_summary_ReversedSuccesses(b, rs) ==
    LET successful == SelectSeq(rs, LAMBDA r : r.success)
        failed     == SelectSeq(rs, LAMBDA r : ~r.success)
    IN  [ platform          |-> PlatformDir(b),
          total             |-> Len(rs),
          successful        |-> Len(successful),
          failed            |-> Len(failed),
          success_rate      |-> IF Len(rs) # 0 THEN Fraction(Len(successful), Len(rs))
                                ELSE <<0, 1>>,
          successful_builds |-> [i \in 1..Len(successful) |->
                                   successful[Len(successful) + 1 - i].script_name],
          failed_builds     |-> [i \in 1..Len(failed) |->
                                   <<failed[i].script_name, failed[i].error_message>>],
          output_directory  |-> <<"dist">> \o PlatformDir(b) ]

get_build_summary(b, rs) ==
    LET successful == SelectSeq(rs, LAMBDA r : r.success)
        failed     == SelectSeq(rs, LAMBDA r : ~r.success)
    IN  [ platform          |-> PlatformDir(b),
          total             |-> Len(rs),
          successful        |-> Len(successful),
          failed            |-> Len(failed),
          success_rate      |-> IF Len(rs) # 0 THEN Fraction(Len(successful), Len(rs))
                                ELSE <<0, 1>>,
          successful_builds |-> [i \in 1..Len(successful) |-> successful[i].script_name],
          failed_builds     |-> [i \in 1..Len(failed) |->
                                   <<failed[i].script_name, failed[i].error_message>>],
          output_directory  |-> <<"dist">> \o PlatformDir(b) ]

(***************************************************************************)
(* PackageMetadata and the metadata store                                  *)
(***************************************************************************)
PackageMetadata(name, version, platform, arch, now) ==
    [ name |-> name, version |-> version, platform |-> platform, arch |-> arch,
      build_time |-> now, build_info |-> << >> ]

\* Mutant: the file name also carries the build time.
BaseName_Stamped(m) ==
    m.name \o m.version \o m.platform \o m.arch
    \o << IF m.build_time = 0 THEN "t0" ELSE "t1" >>

\* f"{name}-{version}-{platform}-{arch}"
BaseName(m) == m.name \o m.version \o m.platform \o m.arch

\* PackageMetadata.to_dict
to_dict(m) ==
    [ name |-> m.name, version |-> m.version, platform |-> m.platform, arch |-> m.arch,
      build_time |-> m.build_time, build_info |-> m.build_info ]

\* Mutant: an existing record file is not written again.
save_metadata_KeepFirst(files, m) ==
    [ f \in DOMAIN files \cup {BaseName(m)} |->
        IF f \in DOMAIN files THEN files[f] ELSE to_dict(m) ]

\* _save_metadata: open(metadata_file, 'w') and json.dump(metadata.to_dict()).  A
\* record file is kept as the dict that was dumped into it.
save_metadata(files, m) ==
    [ f \in DOMAIN files \cup {BaseName(m)} |->
        IF f = BaseName(m) THEN to_dict(m) ELSE files[f] ]

\* The file written by _save_metadata is no longer one that fails to parse.
save_metadata_junk(junk, m) == junk \ {BaseName(m)}

\* A Python list where the value dumped was a tuple: JSON has arrays only, and
\* json.load gives a list for every array.
PyList(items) == <<"list">> \o items

\* json.load of what json.dump wrote for build_info: strings, numbers, None,
\* lists and dicts come back as they were, the (script, message) tuples of
\* failed_builds as lists.
json_load_build_info(info) ==
    IF info = << >> THEN info
    ELSE IF "failed_builds" \in DOMAIN info
    THEN [ info EXCEPT !.failed_builds = [ i \in 1..Len(@) |-> PyList(@[i]) ] ]
    ELSE info

\* Mutant: the build_time of the file is not taken over.
from_dict_Fresh(data, now) ==
    [ PackageMetadata(data.name, data.version, data.platform, data.arch, now)
        EXCEPT !.build_info = json_load_build_info(data.build_info) ]

\* PackageMetadata.from_dict on the dict json.load gives: the constructor reads
\* the clock, then build_time and build_info are taken from the file.
from_dict(data, now) ==
    [ PackageMetadata(data.name, data.version, data.platform, data.arch, now)
        EXCEPT !.build_time = data.build_time,
               !.build_info = json_load_build_info(data.build_info) ]

\* Mutant: the record of a platform key gets the arch of an x86_64 host.
CrossPlatformKey_HostArch(platform) ==
    << <<platform[1]>>, IF Len(platform) > 1 THEN <<platform[2]>> ELSE <<"x86_64">> >>

\* The platform and arch build_cross_platform gives the record of a platform key.
CrossPlatformKey(platform) ==
    LET platform_parts == IF Len(platform) > 1 THEN platform
                          ELSE <<platform[1], "unknown">>
    IN  << <<platform_parts[1]>>,
           IF Len(platform_parts) > 1 THEN <<platform_parts[2]>> ELSE <<"unknown">> >>

AnySuccess(rs) == \E i \in 1..Len(rs) : rs[i].success

\* all_results[platform] = rs on a dict kept as a sequence of <<key, value>>.
DictSet(d, k, v) ==
    IF \E i \in 1..Len(d) : d[i][1] = k
    THEN [i \in 1..Len(d) |-> IF d[i][1] = k THEN <<k, v>> ELSE d[i]]
    ELSE Append(d, <<k, v>>)

get_cross_platform_summary(d) ==
    [ platforms        |-> [i \in 1..Len(d) |-> d[i][1]],
      total_platforms  |-> Len(d),
      platform_results |->
          [i \in 1..Len(d) |->
              LET rs == d[i][2]
                  successful == SelectSeq(rs, LAMBDA r : r.success)
                  failed     == SelectSeq(rs, LAMBDA r : ~r.success)
              IN  << d[i][1],
                     [ total |-> Len(rs), successful |-> Len(successful),
                       failed |-> Len(failed),
                       success_rate |-> IF Len(rs) # 0
                                        THEN Fraction(Len(successful), Len(rs))
                                        ELSE <<0, 1>> ] >>] ]

(***************************************************************************)
(* The state after construction: nothing built, packages/ empty.           *)
(***************************************************************************)
ConfiguredScripts == { SubSeq(MAIN_SCRIPTS, 1, n) : n \in 0..Min(MaxScripts, Len(MAIN_SCRIPTS)) }

NoReturn == [op |-> "none", value |-> << >>]

InitCore ==
    /\ project_version = <<"0.1.0">>
    /\ metaFiles = << >>
    /\ archives = {}
    /\ clock = 0
    /\ builder = None
    /\ pc = "idle"
    /\ idx = 1
    /\ results = << >>
    /\ invoked = 0
    /\ log = << >>
    /\ lastRun = None
    /\ op = "none"
    /\ arg = None
    /\ builders = {}
    /\ failedCtor = {}
    /\ todo = << >>
    /\ all_results = << >>
    /\ saved = << >>
    /\ ret = NoReturn
    /\ calls = 0

\* A fresh checkout: no build/, dist/ or temp/ yet.
InitCommon ==
    /\ host \in Hosts
    /\ InitCore
    /\ distDirs = {}
    /\ distFiles = {}
    /\ topDirs = {}
    /\ buildEntries = << >>
    /\ otherFiles = {}
    /\ junkFiles = {}

Init ==
    /\ InitCommon
    /\ main_scripts \in ConfiguredScripts
    /\ scriptsOnDisk = Range(main_scripts)

passVars == << pc, idx, results, invoked, log, lastRun >>

(***************************************************************************)
(* The environment: a script file is removed from the working directory.   *)
(***************************************************************************)
RemoveScript ==
    /\ \E s \in scriptsOnDisk : scriptsOnDisk' = scriptsOnDisk \ {s}
    /\ UNCHANGED << cfgVars, fsVars, storeVars, crossVars, builder, passVars, op, arg,
                    saved, ret, calls >>

(***************************************************************************)
(* BaseBuilder.build_all_executables, one action per step.                 *)
(***************************************************************************)
PassFrame == UNCHANGED << cfgVars, scriptsOnDisk, storeVars, crossVars, builder, op, arg,
                          saved, ret, calls >>

Logged(event, detail) == [event |-> event, detail |-> detail]

\* Mutant: the build/ directory is emptied, spec files included.
clean_build_dirs_entries_All(entries) == << >>

\* clean_build_dirs on build/: every entry that is a directory is removed, every
\* other entry (a .spec file or not) stays as it is.
clean_build_dirs_entries(entries) ==
    [ n \in { m \in DOMAIN entries : ~entries[m].isdir } |-> entries[n] ]

\* clean_build_dirs on the rest of the tree: dist/ and temp/ are removed.
clean_build_dirs_files(fs) == { f \in fs : f.dir \notin {"dist", "temp"} }

\* dist/ and temp/ removed, then makedirs(dist) and makedirs(build).
clean_build_dirs_top(top) == (top \ {"dist", "temp"}) \cup {"dist", "build"}

\* Mutant: clean_build_dirs leaves dist/ as it is.
CleanBuildDirs_KeepsDist ==
    /\ pc = "start"
    /\ results' = << >>
    /\ topDirs' = clean_build_dirs_top(topDirs)
    /\ buildEntries' = clean_build_dirs_entries(buildEntries)
    /\ otherFiles' = clean_build_dirs_files(otherFiles)
    /\ invoked' = 0
    /\ idx' = 1
    /\ log' = << Logged("build dirs cleaned", "") >>
    /\ lastRun' = None
    /\ pc' = "cleaned"
    /\ UNCHANGED << distDirs, distFiles >>
    /\ PassFrame

\* results = [] and clean_build_dirs(): dist/ is removed and created again, empty.
CleanBuildDirs ==
    /\ pc = "start"
    /\ results' = << >>
    /\ distDirs' = {}
    /\ distFiles' = {}
    /\ topDirs' = clean_build_dirs_top(topDirs)
    /\ buildEntries' = clean_build_dirs_entries(buildEntries)
    /\ otherFiles' = clean_build_dirs_files(otherFiles)
    /\ invoked' = 0
    /\ idx' = 1
    /\ log' = << Logged("build dirs cleaned", "") >>
    /\ lastRun' = None
    /\ pc' = "cleaned"
    /\ PassFrame

\* BaseBuilder.validate_environment: the configuration's check, then the probe
\* `pyinstaller --version`.
builder_validate_environment(scripts, onDisk, srcExists, probeOk) ==
    IF ~config_validate_environment(scripts, onDisk, srcExists) THEN FALSE
    ELSE IF ~probeOk THEN FALSE
    ELSE TRUE

ValidationFailure ==
    BuildResult(<<"environment validation">>, FALSE,
                Some(Message("environment validation failed", "", << >>, << >>)))

DependencyFailure ==
    BuildResult(<<"dependency installation">>, FALSE,
                Some(Message("dependency installation failed", "", << >>, << >>)))

MissingScript(script) ==
    BuildResult(script, FALSE, Some(Message("file not found", "", << >>, << >>)))

\* Mutant: the `return` after a failed validation is missing.
ValidateEnvironment_NoReturn ==
    /\ pc = "cleaned"
    /\ \E srcExists \in BOOLEAN, probeOk \in BOOLEAN :
         IF builder_validate_environment(main_scripts, scriptsOnDisk, srcExists, probeOk)
         THEN log' = Append(log, Logged("environment validated", ""))
         ELSE log' = Append(log, Logged("environment validation failed", ""))
    /\ pc' = "validated"
    /\ UNCHANGED << fsVars, idx, results, invoked, lastRun >>
    /\ PassFrame

ValidateEnvironment ==
    /\ pc = "cleaned"
    /\ \E srcExists \in BOOLEAN, probeOk \in BOOLEAN :
         IF builder_validate_environment(main_scripts, scriptsOnDisk, srcExists, probeOk)
         THEN /\ pc' = "validated"
              /\ results' = results
              /\ log' = Append(log, Logged("environment validated", ""))
         ELSE /\ pc' = "returned"
              /\ results' = <<ValidationFailure>>
              /\ log' = Append(log, Logged("environment validation failed", ""))
    /\ UNCHANGED << fsVars, idx, invoked, lastRun >>
    /\ PassFrame

\* Mutant: the `return` after a failed installation is missing.
InstallDependencies_NoReturn ==
    /\ pc = "validated"
    /\ \E pipOk \in BOOLEAN :
         IF pipOk
         THEN log' = Append(log, Logged("dependencies installed", ""))
         ELSE log' = Append(log, Logged("dependency installation failed", ""))
    /\ pc' = "loop"
    /\ UNCHANGED << fsVars, idx, results, invoked, lastRun >>
    /\ PassFrame

InstallDependencies ==
    /\ pc = "validated"
    /\ \E pipOk \in BOOLEAN :
         IF pipOk
         THEN /\ pc' = "loop"
              /\ results' = results
              /\ log' = Append(log, Logged("dependencies installed", ""))
         ELSE /\ pc' = "returned"
              /\ results' = <<DependencyFailure>>
              /\ log' = Append(log, Logged("dependency installation failed", ""))
    /\ UNCHANGED << fsVars, idx, invoked, lastRun >>
    /\ PassFrame

\* Whether the loop of build_all_executables hands the script to the bundler.
ScriptPresent(script, onDisk) == script \in onDisk

\* Mutant: a missing script is skipped without a result.
AppendMissing_Skip(rs, script) == rs

\* results.append(BuildResult(script, False, "file not found"))
AppendMissing(rs, script) == Append(rs, MissingScript(script))

\* Mutant: the loop stops at the first failed script.
LoopAdvance_StopOnFailure(i, r) == IF r.success THEN i + 1 ELSE Len(main_scripts) + 1

\* The loop goes on to the next script whatever the result r was.
LoopAdvance(i, r) == i + 1

\* One iteration of `for script in self.config.MAIN_SCRIPTS`.
BuildScript ==
    /\ pc = "loop"
    /\ idx <= Len(main_scripts)
    /\ LET script == main_scripts[idx]
           b      == TheValue(builder)
       IN  IF ScriptPresent(script, scriptsOnDisk)
           THEN \E o \in BundlerOutcomes :
                  LET after == AfterBundler(b, script, o, distFiles)
                      r     == base_build_single_executable(b, script, o, after)
                  IN  /\ results' = Append(results, r)
                      /\ distFiles' = PostProcess(b, r, after)
                      /\ distDirs' = IF o.madeDir THEN distDirs \cup {PlatformDir(b)}
                                     ELSE distDirs
                      /\ buildEntries' = BundlerWorkFiles(buildEntries, script, clock)
                      /\ UNCHANGED << topDirs, otherFiles >>
                      /\ invoked' = invoked + 1
                      /\ log' = Append(log, Logged("building", Stem(script)))
                      /\ lastRun' = Some([ index  |-> idx,
                                           exit   |-> o.exit,
                                           stderr |-> o.stderr ])
                      /\ idx' = LoopAdvance(idx, r)
           ELSE /\ results' = AppendMissing(results, script)
                /\ log' = Append(log, Logged("script missing, skipped", Stem(script)))
                /\ idx' = LoopAdvance(idx, MissingScript(script))
                /\ UNCHANGED << fsVars, invoked, lastRun >>
    /\ pc' = "loop"
    /\ PassFrame

LoopDone ==
    /\ pc = "loop"
    /\ idx > Len(main_scripts)
    /\ pc' = "returned"
    /\ UNCHANGED << fsVars, idx, results, invoked, log, lastRun >>
    /\ PassFrame

\* The locals of a call that has returned.
LocalsGone ==
    /\ builder' = None
    /\ idx' = 1
    /\ results' = << >>
    /\ invoked' = 0
    /\ log' = << >>
    /\ lastRun' = None
    /\ op' = "none"
    /\ pc' = "idle"

(***************************************************************************)
(* Top-level calls.                                                        *)
(***************************************************************************)
Idle == pc = "idle" /\ calls < MaxCalls

PlatformArgs == { None, Some(<<"Windows">>), Some(<<"linux">>), Some(<<"DARWIN">>),
                  Some(<<"macos">>) }

\* BuilderFactory.create_builder(platform).build_all_executables()
CallBuildAll ==
    /\ Idle
    /\ \E p \in PlatformArgs : builder' = Some(create_builder(p, host))
    /\ op' = "build_all"
    /\ pc' = "start"
    /\ calls' = calls + 1
    /\ saved' = << >>
    /\ ret' = NoReturn
    /\ UNCHANGED << cfgVars, scriptsOnDisk, fsVars, storeVars, crossVars, idx, results,
                    invoked, log, lastRun, arg >>

ReturnBuildAll ==
    /\ pc = "returned"
    /\ op = "build_all"
    /\ ret' = [op |-> "build_all", value |-> results]
    /\ LocalsGone
    /\ UNCHANGED << cfgVars, scriptsOnDisk, fsVars, storeVars, crossVars, arg, saved,
                    calls >>

\* PackageManager.build_current_platform
CallBuildCurrentPlatform ==
    /\ Idle
    /\ builder' = Some(create_builder(None, host))
    /\ op' = "build_current_platform"
    /\ pc' = "start"
    /\ calls' = calls + 1
    /\ saved' = << >>
    /\ ret' = NoReturn
    /\ UNCHANGED << cfgVars, scriptsOnDisk, fsVars, storeVars, crossVars, idx, results,
                    invoked, log, lastRun, arg >>

\* The platform and arch build_current_platform gives its record.
CurrentPlatformKey(summary) == << <<summary.platform[1]>>, <<summary.platform[2]>> >>

\* The rest of build_current_platform once build_all_executables has returned:
\* create_distribution_package() changes nothing kept in this state and its
\* answer is dropped; then the summary, the record and _save_metadata.
FinishCurrentPlatform ==
    /\ pc = "returned"
    /\ op = "build_current_platform"
    /\ \E now \in clock..MaxClock :
         LET b        == TheValue(builder)
             summary  == get_build_summary(b, results)
             key      == CurrentPlatformKey(summary)
             metadata == [ PackageMetadata(PROJECT_NAME, project_version,
                                           key[1], key[2], now)
                             EXCEPT !.build_info = summary ]
         IN  /\ clock' = now
             /\ metaFiles' = save_metadata(metaFiles, metadata)
             /\ junkFiles' = save_metadata_junk(junkFiles, metadata)
             /\ saved' = Append(saved, BaseName(metadata))
             /\ ret' = [op |-> "build_current_platform", value |-> summary]
    /\ LocalsGone
    /\ UNCHANGED << cfgVars, scriptsOnDisk, fsVars, archives, crossVars, arg, calls >>

(***************************************************************************)
(* CrossPlatformBuilder and PackageManager.build_cross_platform            *)
(***************************************************************************)
UnsupportedPlatform(platform) ==
    BuildResult(<<"platform check">>, FALSE,
                Some(Message("unsupported platform", "", << >>, platform)))

\* Mutant: `if platforms is not None:`.
Truthy_IsNotNone(platforms) == platforms # None

\* `if platforms:` is false for None and for the empty list.
Truthy(platforms) == platforms # None /\ TheValue(platforms) # << >>

PlatformLists == { None, Some(<< >>), Some(<< <<"linux">> >>),
                   Some(<< <<"macos">>, <<"windows">> >>),
                   Some(<< <<"linux", "x86_64">> >>) }

\* CrossPlatformBuilder(config), then the choice of the platforms to build.
StartBuildCrossPlatform ==
    /\ pc = "idle"
    /\ \E platforms \in PlatformLists, failed \in SUBSET Range(get_supported_platforms) :
         /\ builders' = Range(get_supported_platforms) \ failed
         /\ failedCtor' = failed
         /\ arg' = platforms
         /\ todo' = IF Truthy(platforms) THEN TheValue(platforms)
                    ELSE SeqOfSet(get_supported_platforms, builders')
    /\ all_results' = << >>
    /\ op' = "build_cross_platform"
    /\ pc' = "cross_next"
    /\ calls' = calls + 1
    /\ saved' = << >>
    /\ ret' = NoReturn
    /\ UNCHANGED << cfgVars, scriptsOnDisk, fsVars, storeVars, builder, idx, results,
                    invoked, log, lastRun >>

CallBuildCrossPlatform ==
    /\ calls < MaxCrossCalls
    /\ StartBuildCrossPlatform

\* Mutant: the directories are cleaned before the platform is looked up.
BuildForPlatform_CleansFirst ==
    /\ pc = "cross_next"
    /\ todo # << >>
    /\ LET platform == Head(todo)
       IN  IF platform \notin builders
           THEN /\ all_results' = DictSet(all_results, platform,
                                          <<UnsupportedPlatform(platform)>>)
                /\ todo' = Tail(todo)
                /\ pc' = "cross_next"
                /\ UNCHANGED builder
           ELSE /\ builder' = Some(create_builder(Some(platform), host))
                /\ pc' = "start"
                /\ UNCHANGED << todo, all_results >>
    /\ arg' = None
    /\ distDirs' = {}
    /\ distFiles' = {}
    /\ topDirs' = clean_build_dirs_top(topDirs)
    /\ buildEntries' = clean_build_dirs_entries(buildEntries)
    /\ otherFiles' = clean_build_dirs_files(otherFiles)
    /\ UNCHANGED << cfgVars, scriptsOnDisk, storeVars, builders, failedCtor, idx,
                    results, invoked, log, lastRun, op, saved, ret, calls >>

\* build_for_platform(platform): a synthetic failure, or the platform's builder
\* starts build_all_executables.
BuildForPlatform ==
    /\ pc = "cross_next"
    /\ todo # << >>
    /\ LET platform == Head(todo)
       IN  IF platform \notin builders
           THEN /\ all_results' = DictSet(all_results, platform,
                                          <<UnsupportedPlatform(platform)>>)
                /\ todo' = Tail(todo)
                /\ pc' = "cross_next"
                /\ UNCHANGED builder
           ELSE /\ builder' = Some(create_builder(Some(platform), host))
                /\ pc' = "start"
                /\ UNCHANGED << todo, all_results >>
    /\ arg' = None
    /\ UNCHANGED << cfgVars, scriptsOnDisk, fsVars, storeVars, builders, failedCtor, idx,
                    results, invoked, log, lastRun, op, saved, ret, calls >>

\* all_results[platform] = builder.build_all_executables()
CollectPlatform ==
    /\ pc = "returned"
    /\ op = "build_cross_platform"
    /\ all_results' = DictSet(all_results, Head(todo), results)
    /\ todo' = Tail(todo)
    /\ pc' = "cross_next"
    /\ UNCHANGED << cfgVars, scriptsOnDisk, fsVars, storeVars, builders, failedCtor,
                    builder, idx, results, invoked, log, lastRun, op, arg, saved, ret, calls >>

\* Every platform is built: the summary is taken and the metadata loop starts.
CrossSummary ==
    /\ pc = "cross_next"
    /\ todo = << >>
    /\ idx' = 1
    /\ pc' = "cross_save"
    /\ arg' = None
    /\ UNCHANGED << cfgVars, scriptsOnDisk, fsVars, storeVars, crossVars, builder,
                    results, invoked, log, lastRun, op, saved, ret, calls >>

CrossBuildInfo(rs) ==
    [ results |-> [i \in 1..Len(rs) |->
                     [script |-> rs[i].script_name, success |-> rs[i].success]] ]

\* Mutant: all(...) in place of any(...).
CrossRecorded_All(rs) == \A i \in 1..Len(rs) : rs[i].success

\* Whether build_cross_platform writes a record for a platform with results rs.
CrossRecorded(rs) == AnySuccess(rs)

\* One iteration of `for platform, results in all_results.items()`.
CrossSave ==
    /\ pc = "cross_save"
    /\ idx <= Len(all_results)
    /\ LET platform == all_results[idx][1]
           rs       == all_results[idx][2]
           key      == CrossPlatformKey(platform)
       IN  IF CrossRecorded(rs)
           THEN \E now \in clock..MaxClock :
                  LET metadata == [ PackageMetadata(PROJECT_NAME, project_version,
                                                    key[1], key[2], now)
                                      EXCEPT !.build_info = CrossBuildInfo(rs) ]
                  IN  /\ clock' = now
                      /\ metaFiles' = save_metadata(metaFiles, metadata)
                      /\ junkFiles' = save_metadata_junk(junkFiles, metadata)
                      /\ saved' = Append(saved, BaseName(metadata))
           ELSE UNCHANGED << clock, metaFiles, junkFiles, saved >>
    /\ idx' = idx + 1
    /\ pc' = "cross_save"
    /\ UNCHANGED << cfgVars, scriptsOnDisk, fsVars, archives, crossVars, builder, results,
                    invoked, log, lastRun, op, arg, ret, calls >>

ReturnCrossPlatform ==
    /\ pc = "cross_save"
    /\ idx > Len(all_results)
    /\ ret' = [op |-> "build_cross_platform",
               value |-> get_cross_platform_summary(all_results)]
    /\ LocalsGone
    /\ builders' = {}
    /\ failedCtor' = {}
    /\ all_results' = << >>
    /\ UNCHANGED << cfgVars, scriptsOnDisk, fsVars, storeVars, todo, arg, saved, calls >>

\* A build pass, whoever started it.
BuildPass ==
    \/ CleanBuildDirs
    \/ ValidateEnvironment
    \/ InstallDependencies
    \/ BuildScript
    \/ LoopDone

(***************************************************************************)
(* Spec: a builder from the factory running build passes, and               *)
(* PackageManager.build_current_platform, on every host.                   *)
(***************************************************************************)
Next ==
    \/ RemoveScript
    \/ CallBuildAll
    \/ BuildPass
    \/ ReturnBuildAll
    \/ CallBuildCurrentPlatform
    \/ FinishCurrentPlatform

Spec == Init /\ [][Next]_vars

(***************************************************************************)
(* SpecHang: a build pass in which subprocess.run of the bundler is a step  *)
(* of its own: the child process is started, and it returns or it does not. *)
(* pc = "bundling" is a child that will return, pc = "hung" one that never  *)
(* does.                                                                    *)
(***************************************************************************)
InitHang ==
    /\ Init
    /\ host.system = <<"Linux">>

\* subprocess.run(cmd, check=True, capture_output=True, text=True) is entered.
StartBundler ==
    /\ pc = "loop"
    /\ idx <= Len(main_scripts)
    /\ ScriptPresent(main_scripts[idx], scriptsOnDisk)
    /\ pc' \in {"bundling", "hung"}
    /\ invoked' = invoked + 1
    /\ log' = Append(log, Logged("building", Stem(main_scripts[idx])))
    /\ UNCHANGED << fsVars, idx, results, lastRun >>
    /\ PassFrame

\* Mutant: subprocess.run gives up on a child that does not return, and the
\* script gets a failed result.
BundlerReturns_Timeout ==
    /\ pc \in {"bundling", "hung"}
    /\ results' = Append(results,
                         BuildResult(main_scripts[idx], FALSE,
                                     Some(Message("build failed", "timeout", << >>, << >>))))
    /\ idx' = idx + 1
    /\ pc' = "loop"
    /\ UNCHANGED << fsVars, invoked, log, lastRun >>
    /\ PassFrame

\* subprocess.run returns or raises CalledProcessError, and the rest of
\* build_single_executable and of the loop body follows.
BundlerReturns ==
    /\ pc = "bundling"
    /\ \E o \in BundlerOutcomes :
         LET script == main_scripts[idx]
             b      == TheValue(builder)
             after  == AfterBundler(b, script, o, distFiles)
             r      == base_build_single_executable(b, script, o, after)
         IN  /\ results' = Append(results, r)
             /\ distFiles' = PostProcess(b, r, after)
             /\ distDirs' = IF o.madeDir THEN distDirs \cup {PlatformDir(b)} ELSE distDirs
             /\ buildEntries' = BundlerWorkFiles(buildEntries, script, clock)
             /\ lastRun' = Some([index |-> idx, exit |-> o.exit, stderr |-> o.stderr])
             /\ idx' = LoopAdvance(idx, r)
    /\ pc' = "loop"
    /\ UNCHANGED << topDirs, otherFiles, invoked, log >>
    /\ PassFrame

\* The else branch of the loop body.
SkipMissingScript ==
    /\ pc = "loop"
    /\ idx <= Len(main_scripts)
    /\ ~ScriptPresent(main_scripts[idx], scriptsOnDisk)
    /\ results' = AppendMissing(results, main_scripts[idx])
    /\ log' = Append(log, Logged("script missing, skipped", Stem(main_scripts[idx])))
    /\ idx' = LoopAdvance(idx, MissingScript(main_scripts[idx]))
    /\ pc' = "loop"
    /\ UNCHANGED << fsVars, invoked, lastRun >>
    /\ PassFrame

PassHang ==
    \/ CleanBuildDirs
    \/ ValidateEnvironment
    \/ InstallDependencies
    \/ StartBundler
    \/ BundlerReturns
    \/ SkipMissingScript
    \/ LoopDone

NextHang ==
    \/ RemoveScript
    \/ CallBuildAll
    \/ PassHang
    \/ ReturnBuildAll

\* The interpreter runs the pass on: a step that can be taken is taken.
SpecHang == InitHang /\ [][NextHang]_vars /\ WF_vars(PassHang)

(***************************************************************************)
(* SpecCross: PackageManager.build_cross_platform on one host.             *)
(***************************************************************************)
InitCross ==
    /\ Init
    /\ host = [system |-> <<"Linux">>, machine |-> <<"x86_64">>]

NextCross ==
    \/ RemoveScript
    \/ BuildPass
    \/ CallBuildCrossPlatform
    \/ BuildForPlatform
    \/ CollectPlatform
    \/ CrossSummary
    \/ CrossSave
    \/ ReturnCrossPlatform

SpecCross == InitCross /\ [][NextCross]_vars

(***************************************************************************)
(* SpecFactory: BuilderFactory.create_builder and the construction of a    *)
(* CrossPlatformBuilder, on every host.                                    *)
(***************************************************************************)
FactoryNames ==
    { <<"windows">>, <<"Windows">>, <<"WINDOWS">>, <<"linux">>, <<"Linux">>, <<"LINUX">>,
      <<"darwin">>, <<"Darwin">>, <<"DARWIN">>, <<"macos">>, <<"MacOS">>, <<"MACOS">>,
      <<"freebsd">>, <<"linux", "x86_64">>, <<"">> }

InitFactory ==
    /\ InitCommon
    /\ main_scripts = << >>
    /\ scriptsOnDisk = {}

\* BuilderFactory.create_builder(platform)
CreateBuilder ==
    /\ \E p \in {None} \cup { Some(n) : n \in FactoryNames } :
         /\ arg' = p
         /\ builder' = Some(create_builder(p, host))
         /\ ret' = [op |-> "create_builder", value |-> create_builder(p, host)]
    /\ UNCHANGED << cfgVars, scriptsOnDisk, fsVars, storeVars, crossVars, passVars, op,
                    saved, calls >>

\* CrossPlatformBuilder(config): one builder per supported platform, a platform
\* whose construction raises being left out.
NewCrossPlatformBuilder ==
    /\ \E failed \in SUBSET Range(get_supported_platforms) :
         /\ builders' = Range(get_supported_platforms) \ failed
         /\ failedCtor' = failed
    /\ ret' = [op |-> "CrossPlatformBuilder", value |-> << >>]
    /\ arg' = None
    /\ builder' = None
    /\ UNCHANGED << cfgVars, scriptsOnDisk, fsVars, storeVars, todo, all_results,
                    passVars, op, saved, calls >>

\* BuilderFactory.get_supported_platforms()
GetSupportedPlatforms ==
    /\ ret' = [op |-> "get_supported_platforms", value |-> get_supported_platforms]
    /\ arg' = None
    /\ UNCHANGED << cfgVars, scriptsOnDisk, fsVars, storeVars, crossVars, builder,
                    passVars, op, saved, calls >>

NextFactory ==
    \/ CreateBuilder
    \/ GetSupportedPlatforms
    \/ NewCrossPlatformBuilder

SpecFactory == InitFactory /\ [][NextFactory]_vars

(***************************************************************************)
(* The metadata store: list_packages, clean_packages, _remove_package and  *)
(* create_release_package.                                                 *)
(***************************************************************************)
\* All sequences that enumerate the set S once each: the orders in which
\* glob("*.json") may yield the files.
Enumerations(S) ==
    { e \in [1..Cardinality(S) -> S] : \A x \in S : \E i \in DOMAIN e : e[i] = x }

\* Mutant: the listing ends at the first file that does not parse.
RECURSIVE list_packages_StopAtJunk(_, _, _)
list_packages_StopAtJunk(files, e, now) ==
    IF e = << >> THEN << >>
    ELSE IF Head(e) \notin DOMAIN files THEN << >>
    ELSE <<from_dict(files[Head(e)], now)>> \o list_packages_StopAtJunk(files, Tail(e), now)

\* list_packages over the *.json files of packages/ enumerated in the order e,
\* the clock reading now: a file that does not load as a record (it is not a
\* key of `files`) raises inside the try and is skipped.
RECURSIVE list_packages(_, _, _)
list_packages(files, e, now) ==
    IF e = << >> THEN << >>
    ELSE IF Head(e) \notin DOMAIN files THEN list_packages(files, Tail(e), now)
    ELSE <<from_dict(files[Head(e)], now)>> \o list_packages(files, Tail(e), now)

\* f"{pkg.platform}-{pkg.arch}"
PlatformKey(pkg) == pkg.platform \o pkg.arch

\* The list platform_packages[key] built by the grouping loop.
GroupList(packages, key) == SelectSeq(packages, LAMBDA pkg : PlatformKey(pkg) = key)

\* x placed after the last element whose build_time is not smaller.
RECURSIVE InsertDesc(_, _)
InsertDesc(sorted, x) ==
    IF sorted = << >> THEN <<x>>
    ELSE IF Head(sorted).build_time >= x.build_time
         THEN <<Head(sorted)>> \o InsertDesc(Tail(sorted), x)
         ELSE <<x>> \o sorted

\* x placed after the last element whose build_time is not larger.
RECURSIVE InsertAsc(_, _)
InsertAsc(sorted, x) ==
    IF sorted = << >> THEN <<x>>
    ELSE IF Head(sorted).build_time <= x.build_time
         THEN <<Head(sorted)>> \o InsertAsc(Tail(sorted), x)
         ELSE <<x>> \o sorted

\* Mutant: the sort without reverse=True, oldest first.
RECURSIVE SortOldestFirst(_)
SortOldestFirst(list) ==
    IF list = << >> THEN << >>
    ELSE InsertAsc(SortOldestFirst(SubSeq(list, 1, Len(list) - 1)), list[Len(list)])

\* pkg_list.sort(key=build_time, reverse=True): stable, newest first.
RECURSIVE SortNewestFirst(_)
SortNewestFirst(list) ==
    IF list = << >> THEN << >>
    ELSE InsertDesc(SortNewestFirst(SubSeq(list, 1, Len(list) - 1)), list[Len(list)])

\* Python's list[k:]
SliceFrom(list, k) ==
    LET start == IF k >= 0 THEN Min(k, Len(list))
                 ELSE IF Len(list) + k > 0 THEN Len(list) + k ELSE 0
    IN  SubSeq(list, start + 1, Len(list))

\* The records clean_packages hands to _remove_package, for one group.
OldPackages(packages, key, keep_latest) ==
    SliceFrom(SortNewestFirst(GroupList(packages, key)), keep_latest)

ArchiveExts == {".zip", ".tar.gz", ".tgz"}

\* _remove_package for every record of the set removed.
remove_packages_meta(files, removed) ==
    [ f \in DOMAIN files \ { BaseName(m) : m \in removed } |-> files[f] ]

remove_packages_archives(arcs, removed) ==
    { a \in arcs : ~(\E m \in removed : a[1] = BaseName(m) /\ a[2] \in ArchiveExts) }

StoreGroups == { << <<"linux">>, <<"x86_64">> >>, << <<"linux">>, <<"unknown">> >> }

\* packages/ is empty; dist/ is as an earlier build left it.
InitStore ==
    /\ host = [system |-> <<"Linux">>, machine |-> <<"x86_64">>]
    /\ InitCore
    /\ main_scripts = << >>
    /\ scriptsOnDisk = {}
    /\ distDirs \in { {}, { <<"linux", "x86_64">> } }
    /\ distFiles = {}
    /\ topDirs = IF distDirs = {} THEN {} ELSE {"build", "dist"}
    /\ buildEntries = << >>
    /\ otherFiles = {}
    /\ junkFiles = {}

StoreFrame == UNCHANGED << cfgVars, scriptsOnDisk, fsVars, crossVars, builder, passVars,
                           op, saved, calls >>

\* A finished build of a manager configured with version v: the record is
\* constructed and _save_metadata writes it.
SaveMetadata ==
    /\ \E v \in Versions, g \in StoreGroups, now \in clock..MaxStoreClock :
         LET metadata == PackageMetadata(PROJECT_NAME, v, g[1], g[2], now)
         IN  /\ BaseName(metadata) \in DOMAIN metaFiles
                  \/ Cardinality(DOMAIN metaFiles) < MaxRecords
             /\ clock' = now
             /\ metaFiles' = save_metadata(metaFiles, metadata)
             /\ junkFiles' = save_metadata_junk(junkFiles, metadata)
             /\ ret' = [op |-> "save_metadata", value |-> {}]
    /\ arg' = None
    /\ UNCHANGED archives
    /\ StoreFrame

ReleaseFormats == { "zip", "ZIP", "tar", "tar.gz", "tgz", "rar" }

\* Mutant: the format is compared as written, without lower().
ReleaseExt_CaseSensitive(format) ==
    IF format = "zip" THEN Some(".zip")
    ELSE IF format \in {"tar", "tar.gz", "tgz"} THEN Some(".tar.gz")
    ELSE None

\* The extension create_release_package gives the archive, None when the
\* format is not supported.
ReleaseExt(format) ==
    IF LowerWord(format) = "zip" THEN Some(".zip")
    ELSE IF LowerWord(format) \in {"tar", "tar.gz", "tgz"} THEN Some(".tar.gz")
    ELSE None

\* create_release_package(platform, arch, format) of a manager configured with
\* version v; the archive is named <<release_name, extension>> in packages/.
CreateReleasePackage ==
    /\ \E v \in Versions, g \in StoreGroups, format \in ReleaseFormats :
         LET release_name == PROJECT_NAME \o v \o g[1] \o g[2]
             dist_dir     == g[1] \o g[2]
         IN  /\ arg' = Some([ version |-> v, platform |-> g[1], arch |-> g[2],
                              format |-> format ])
             /\ IF dist_dir \notin distDirs
                THEN /\ ret' = [op |-> "create_release_package", value |-> None]
                     /\ UNCHANGED archives
                ELSE IF ReleaseExt(format) = None
                THEN /\ ret' = [op |-> "create_release_package", value |-> None]
                     /\ UNCHANGED archives
                ELSE LET package == <<release_name, TheValue(ReleaseExt(format))>>
                     IN  /\ package \in archives \/ Cardinality(archives) < MaxArchives
                         /\ archives' = archives \cup {package}
                         /\ ret' = [op |-> "create_release_package",
                                    value |-> Some(package)]
    /\ UNCHANGED << metaFiles, clock, junkFiles >>
    /\ StoreFrame

\* clean_packages(keep_latest), the files being enumerated in the order e.
CleanPackages ==
    /\ \E keep_latest \in 0..MaxKeep, e \in Enumerations(DOMAIN metaFiles \cup junkFiles) :
         LET packages == list_packages(metaFiles, e, clock)
             keys     == { PlatformKey(packages[i]) : i \in DOMAIN packages }
             removed  == UNION { Range(OldPackages(packages, k, keep_latest)) : k \in keys }
         IN  /\ metaFiles' = remove_packages_meta(metaFiles, removed)
             /\ archives' = remove_packages_archives(archives, removed)
             /\ arg' = Some(keep_latest)
             /\ ret' = [op |-> "clean_packages",
                        value |-> { BaseName(m) : m \in removed }]
    /\ UNCHANGED << clock, junkFiles >>
    /\ StoreFrame

NextStore ==
    \/ SaveMetadata
    \/ CreateReleasePackage
    \/ CleanPackages

SpecStore == InitStore /\ [][NextStore]_vars

(***************************************************************************)
(* SpecManager: one PackageManager, its version fixed, packages/ empty at   *)
(* first, called with build_current_platform, build_cross_platform,        *)
(* create_release_package and clean_packages in any order.                 *)
(***************************************************************************)
InitManager ==
    /\ Init
    /\ host = [system |-> <<"Linux">>, machine |-> <<"x86_64">>]
    /\ Len(main_scripts) = 1

\* build_cross_platform(platforms) with a list of platforms to build.
ManagerBuildCrossPlatform ==
    /\ calls < MaxManagerCalls
    /\ StartBuildCrossPlatform
    /\ Truthy(arg')

ManagerBuildCurrentPlatform ==
    /\ calls < MaxManagerCalls
    /\ CallBuildCurrentPlatform

ManagerCreateReleasePackage ==
    /\ pc = "idle"
    /\ CreateReleasePackage
    /\ TheValue(arg').version = project_version
    /\ TheValue(arg').format \in {"zip", "tar"}

ManagerCleanPackages ==
    /\ pc = "idle"
    /\ CleanPackages

\* get_package_info(platform, arch): the first record of list_packages with
\* that platform and arch, None when there is none.
get_package_info(files, e, now, platform, arch) ==
    LET packages == list_packages(files, e, now)
        matches  == SelectSeq(packages,
                              LAMBDA pkg : pkg.platform = platform /\ pkg.arch = arch)
    IN  IF matches = << >> THEN None ELSE Some(matches[1])

ManagerGetPackageInfo ==
    /\ pc = "idle"
    /\ \E platform \in Range(get_supported_platforms),
          arch \in { get_platform_info(host)[2], <<"unknown">> },
          e \in Enumerations(DOMAIN metaFiles \cup junkFiles) :
         ret' = [op |-> "get_package_info",
                 value |-> [ platform |-> platform, arch |-> arch,
                             found |-> get_package_info(metaFiles, e, clock,
                                                        platform, arch) ]]
    /\ UNCHANGED << arg, archives, metaFiles, clock, junkFiles >>
    /\ StoreFrame

NextManager ==
    \/ ManagerGetPackageInfo
    \/ ManagerBuildCurrentPlatform
    \/ ManagerBuildCrossPlatform
    \/ BuildPass
    \/ FinishCurrentPlatform
    \/ BuildForPlatform
    \/ CollectPlatform
    \/ CrossSummary
    \/ CrossSave
    \/ ReturnCrossPlatform
    \/ ManagerCreateReleasePackage
    \/ ManagerCleanPackages

SpecManager == InitManager /\ [][NextManager]_vars

(***************************************************************************)
(* SpecFunctions: the functions of the builder and of the configuration    *)
(* that read no state, applied to inputs drawn from bounded sets.          *)
(***************************************************************************)
ResultShapes ==
    { [ BuildResult(MAIN_SCRIPTS[1], TRUE, None)
          EXCEPT !.executable_path = Some(<< <<"linux", "x86_64">>, <<"generate_data", "">> >>) ],
      [ BuildResult(MAIN_SCRIPTS[2], TRUE, None)
          EXCEPT !.executable_path = Some(<< <<"linux", "x86_64">>, <<"train_model", "">> >>) ],
      BuildResult(MAIN_SCRIPTS[2], FALSE, Some(Message("build failed", "E", << >>, << >>))),
      MissingScript(MAIN_SCRIPTS[3]) }

ResultLists == UNION { [1..n -> ResultShapes] : n \in 0..MaxResults }

InitFunctions ==
    /\ InitCommon
    /\ main_scripts = << >>
    /\ scriptsOnDisk = {}

\* BaseBuilder.get_build_summary(results) on the host's builder.
GetBuildSummary ==
    /\ \E rs \in ResultLists :
         /\ arg' = Some(rs)
         /\ ret' = [op |-> "get_build_summary",
                    value |-> get_build_summary(create_builder(None, host), rs)]
    /\ UNCHANGED << cfgVars, scriptsOnDisk, fsVars, storeVars, crossVars, builder,
                    passVars, op, saved, calls >>

CommandScripts ==
    Range(MAIN_SCRIPTS) \cup { <<"name", ".py">>, <<"run", "">>, <<"archive.tar", ".gz">> }

CommandPlatforms == { <<"windows">>, <<"linux">>, <<"macos">>, <<"cygwin_nt", "10.0">> }

CommandArchs == { <<"x86_64">>, <<"amd64">>, <<"arm64">> }

\* os.pathsep
os_pathsep(h) == IF Lower(h.system) = <<"windows">> THEN ";" ELSE ":"

\* PackageConfig.get_build_command(script_name, platform, arch)
GetBuildCommand ==
    /\ \E script_name \in CommandScripts, platform \in CommandPlatforms,
          arch \in CommandArchs :
         /\ arg' = Some([script_name |-> script_name, platform |-> platform, arch |-> arch])
         /\ ret' = [op |-> "get_build_command",
                    value |-> get_build_command(script_name, platform, arch,
                                                os_pathsep(host))]
    /\ UNCHANGED << cfgVars, scriptsOnDisk, fsVars, storeVars, crossVars, builder,
                    passVars, op, saved, calls >>

\* Platform names get_platform_config is asked about: its three keys and names
\* that are not keys ("darwin", a key in another case, the empty string, ...).
ConfigPlatforms ==
    { <<"windows">>, <<"linux">>, <<"macos">>, <<"darwin">>, <<"Windows">>,
      <<"freebsd">>, <<"">>, <<"cygwin_nt", "10.0">> }

ConfigKeys == { <<"windows">>, <<"linux">>, <<"macos">> }

\* PackageConfig.get_platform_config(platform)
GetPlatformConfig ==
    /\ \E platform \in ConfigPlatforms :
         /\ arg' = Some(platform)
         /\ ret' = [op |-> "get_platform_config", value |-> get_platform_config(platform)]
    /\ UNCHANGED << cfgVars, scriptsOnDisk, fsVars, storeVars, crossVars, builder,
                    passVars, op, saved, calls >>

NextFunctions ==
    \/ GetBuildSummary
    \/ GetBuildCommand
    \/ GetPlatformConfig

SpecFunctions == InitFunctions /\ [][NextFunctions]_vars

(***************************************************************************)
(* SpecWorkspace: clean_build_dirs and clean_spec_files on a working tree  *)
(* left by earlier builds.                                                 *)
(***************************************************************************)
SpecNames == { <<"train_model", ".spec">>, <<"predict", ".spec">> }

\* build/ as earlier bundler runs and a user may have left it: spec files, a
\* work directory and one other file.
BuildTrees ==
    { [ n \in D |-> [ isdir |-> (n = <<"train_model", "">>),
                      mtime |-> IF n \in SpecNames THEN m[n] ELSE 0 ] ] :
        D \in SUBSET (SpecNames \cup { <<"train_model", "">>, <<"warn", ".txt">> }),
        m \in [SpecNames -> 0..MaxMtime] }

TreeFile(dir, sub, name) == [dir |-> dir, sub |-> sub, name |-> name]

OtherFileCandidates ==
    { TreeFile(".", << >>, <<"predict", ".spec">>),
      TreeFile(".", << >>, <<"README", ".md">>),
      TreeFile(".", <<"src">>, <<"old", ".spec">>),
      TreeFile("dist", << >>, <<"predict", ".spec">>),
      TreeFile("dist", <<"linux", "x86_64">>, <<"train_model", ".spec">>),
      TreeFile("temp", << >>, <<"scratch", ".tmp">>),
      TreeFile("temp", <<"work">>, <<"predict", ".spec">>),
      TreeFile("packages", << >>, <<"predict", ".spec">>) }

InitWorkspace ==
    /\ host = [system |-> <<"Linux">>, machine |-> <<"x86_64">>]
    /\ InitCore
    /\ junkFiles = {}
    /\ main_scripts = << >>
    /\ scriptsOnDisk = {}
    /\ topDirs \in SUBSET {"build", "dist", "temp"}
    /\ buildEntries \in BuildTrees
    /\ otherFiles \in SUBSET OtherFileCandidates
    /\ \E built \in BOOLEAN :
         /\ distDirs = IF built THEN { <<"linux", "x86_64">> } ELSE {}
         /\ distFiles = IF built
                        THEN { [ path |-> << <<"linux", "x86_64">>, <<"predict", "">> >>,
                                 mode |-> "0755" ] }
                        ELSE {}
    /\ (buildEntries # << >>) => "build" \in topDirs
    /\ (distDirs # {}) => "dist" \in topDirs
    /\ \A f \in otherFiles : f.dir \in {"dist", "temp"} => f.dir \in topDirs

\* BaseBuilder.clean_build_dirs() called on its own.
CallCleanBuildDirs ==
    /\ calls < MaxTreeCalls
    /\ calls' = calls + 1
    /\ distDirs' = {}
    /\ distFiles' = {}
    /\ topDirs' = clean_build_dirs_top(topDirs)
    /\ buildEntries' = clean_build_dirs_entries(buildEntries)
    /\ otherFiles' = clean_build_dirs_files(otherFiles)
    /\ log' = Append(log, Logged("clean_build_dirs",
                                  [ dirs    |-> topDirs \cap {"dist", "temp"},
                                    subdirs |-> { n \in DOMAIN buildEntries :
                                                    buildEntries[n].isdir } ]))
    /\ ret' = [op |-> "clean_build_dirs", value |-> << >>]
    /\ arg' = None
    /\ UNCHANGED << cfgVars, scriptsOnDisk, storeVars, crossVars, builder, pc, idx,
                    results, invoked, lastRun, op, saved >>

\* build_path.glob("*.spec")
BuildSpecFiles(entries) == { n \in DOMAIN entries : n[2] = ".spec" }

\* The newest file of a group; the first of the sorted list.
NewestOf(entries, group) ==
    CHOOSE n \in group : \A m \in group : entries[n].mtime >= entries[m].mtime

\* Mutant: one group for all spec files, and the newest is the one deleted.
build_specs_to_delete_NewestOnly(entries, keep_latest_only) ==
    IF keep_latest_only
    THEN IF BuildSpecFiles(entries) = {} THEN {}
         ELSE { NewestOf(entries, BuildSpecFiles(entries)) }
    ELSE BuildSpecFiles(entries)

\* Mutant: one group for all spec files, of which the newest is kept.
build_specs_to_delete_OneGroup(entries, keep_latest_only) ==
    IF keep_latest_only
    THEN IF BuildSpecFiles(entries) = {} THEN {}
         ELSE BuildSpecFiles(entries) \ { NewestOf(entries, BuildSpecFiles(entries)) }
    ELSE BuildSpecFiles(entries)

\* The spec files of build/ that clean_spec_files unlinks.  The groups are keyed
\* by spec_file.stem; the names of one directory being distinct, no two spec
\* files have the same stem.
build_specs_to_delete(entries, keep_latest_only) ==
    IF keep_latest_only
    THEN LET stems == { Stem(n) : n \in BuildSpecFiles(entries) }
             group(st) == { n \in BuildSpecFiles(entries) : Stem(n) = st }
         IN  UNION { group(st) \ { NewestOf(entries, group(st)) } : st \in stems }
    ELSE BuildSpecFiles(entries)

\* Mutant: the other directories are scanned with glob, not rglob.
misplaced_specs_TopLevel(fs) ==
    { f \in fs : f.name[2] = ".spec" /\ f.sub = << >> }

\* Path(".").glob("*.spec") and rglob("*.spec") under dist, temp and packages.
misplaced_specs(fs) ==
    { f \in fs :
        /\ f.name[2] = ".spec"
        /\ \/ f.dir = "." /\ f.sub = << >>
           \/ f.dir \in {"dist", "temp", "packages"} }

\* PackageManager.clean_spec_files(keep_latest_only)
CleanSpecFiles ==
    /\ calls < MaxTreeCalls
    /\ calls' = calls + 1
    /\ \E keep_latest_only \in BOOLEAN :
         LET gone == build_specs_to_delete(buildEntries, keep_latest_only)
         IN  /\ buildEntries' = [ n \in DOMAIN buildEntries \ gone |-> buildEntries[n] ]
             /\ otherFiles' = otherFiles \ misplaced_specs(otherFiles)
             /\ arg' = Some(keep_latest_only)
             /\ log' = Append(log, Logged("clean_spec_files",
                                          [ keep      |-> keep_latest_only,
                                            build     |-> gone,
                                            misplaced |-> misplaced_specs(otherFiles) ]))
    /\ ret' = [op |-> "clean_spec_files", value |-> << >>]
    /\ UNCHANGED << cfgVars, scriptsOnDisk, distDirs, distFiles, topDirs, storeVars,
                    crossVars, builder, pc, idx, results, invoked, lastRun, op, saved >>

NextWorkspace ==
    \/ CallCleanBuildDirs
    \/ CleanSpecFiles

SpecWorkspace == InitWorkspace /\ [][NextWorkspace]_vars

(***************************************************************************)
(* SpecRecords: records written by _save_metadata and read back by         *)
(* list_packages, in a packages/ directory that may hold files that are    *)
(* not records.                                                            *)
(***************************************************************************)
\* notes.json, and a file named as a record whose content was cut short.
JunkNames == { <<"notes">>, PROJECT_NAME \o <<"0.1.0">> \o <<"linux">> \o <<"x86_64">> }

\* What the builds give a record as build_info: nothing yet, or the summary of a
\* pass with one success and one failure.
BuildInfoChoices ==
    << << >>,
       get_build_summary(NewBuilder("Linux", [system |-> <<"Linux">>, machine |-> <<"x86_64">>]),
                         << [ BuildResult(MAIN_SCRIPTS[1], TRUE, None)
                                EXCEPT !.executable_path =
                                   Some(<< <<"linux", "x86_64">>, <<"generate_data", "">> >>) ],
                            BuildResult(MAIN_SCRIPTS[2], FALSE,
                                        Some(Message("build failed", "E", << >>, << >>))) >>) >>

InitRecords ==
    /\ host = [system |-> <<"Linux">>, machine |-> <<"x86_64">>]
    /\ InitCore
    /\ main_scripts = << >>
    /\ scriptsOnDisk = {}
    /\ distDirs = {}
    /\ distFiles = {}
    /\ topDirs = {}
    /\ buildEntries = << >>
    /\ otherFiles = {}
    /\ junkFiles \in SUBSET JunkNames

\* A record is constructed at the time `now` and written by _save_metadata.
WriteRecord ==
    /\ calls < MaxWrites
    /\ calls' = calls + 1
    /\ \E v \in {<<"0.1.0">>, <<"0.2.0">>}, g \in StoreGroups,
          k \in DOMAIN BuildInfoChoices, now \in clock..MaxStoreClock :
         LET metadata == [ PackageMetadata(PROJECT_NAME, v, g[1], g[2], now)
                             EXCEPT !.build_info = BuildInfoChoices[k] ]
         IN  /\ clock' = now
             /\ metaFiles' = save_metadata(metaFiles, metadata)
             /\ junkFiles' = save_metadata_junk(junkFiles, metadata)
             /\ log' = Append(log, Logged("save_metadata", metadata))
    /\ ret' = [op |-> "save_metadata", value |-> {}]
    /\ arg' = None
    /\ UNCHANGED << cfgVars, scriptsOnDisk, fsVars, archives, crossVars, builder, pc, idx,
                    results, invoked, lastRun, op, saved >>

\* list_packages(), the directory being enumerated in the order e.
ListPackages ==
    /\ \E e \in Enumerations(DOMAIN metaFiles \cup junkFiles), now \in clock..MaxStoreClock :
         /\ clock' = now
         /\ ret' = [op |-> "list_packages", value |-> list_packages(metaFiles, e, now)]
    /\ arg' = None
    /\ UNCHANGED << cfgVars, scriptsOnDisk, fsVars, metaFiles, archives, junkFiles,
                    crossVars, builder, passVars, op, saved, calls >>

NextRecords ==
    \/ WriteRecord
    \/ ListPackages

SpecRecords == InitRecords /\ [][NextRecords]_vars

(***************************************************************************)
(* Properties.                                                             *)
(***************************************************************************)
HasLogged(event) == \E i \in 1..Len(log) : log[i].event = event

InBuildPass == pc \in {"loop", "returned"}

\* dist/{platform}-{arch}/{targetName}{suffix} for the host's platform and arch.
ExpectedExecutable(script) ==
    LET info   == get_platform_info(host)
        suffix == IF info[1] = <<"windows">> THEN ".exe" ELSE ""
    IN  << info[1] \o info[2], <<script[1], suffix>> >>

\* C1: when validation and dependency installation have succeeded, the build
\* pass returns exactly one result per configured script, in the configured
\* order, and while the loop runs every script before the current one has its
\* result, whatever the earlier results were.
C1_OneResultPerScriptInOrder ==
    /\ (pc = "loop") => Len(results) = idx - 1
    /\ (pc = "returned" /\ HasLogged("dependencies installed")) =>
          /\ Len(results) = Len(main_scripts)
          /\ \A i \in 1..Len(main_scripts) : results[i].script_name = main_scripts[i]

C1_Witness ==
    /\ pc = "returned"
    /\ HasLogged("dependencies installed")
    /\ Len(results) = 2
    /\ ~results[1].success
    /\ TheValue(results[1].error_message).kind = "build failed"
    /\ results[2].success

\* C2: the result of a bundler run is a success exactly when the bundler exited
\* with code 0 and the expected executable exists under dist/; exit code 0 without
\* the executable gives a failure saying the output file was not found, and a
\* non-zero exit code gives a failure whose message carries the captured stderr.
C2_SuccessNeedsExitZeroAndArtifact ==
    (InBuildPass /\ lastRun # None) =>
       LET run      == TheValue(lastRun)
           r        == results[run.index]
           expected == ExpectedExecutable(main_scripts[run.index])
           exists   == \E f \in distFiles : f.path = expected
       IN  /\ r.script_name = main_scripts[run.index]
           /\ r.success <=> (run.exit = 0 /\ exists)
           /\ r.success => r.executable_path = Some(expected)
           /\ (run.exit = 0 /\ ~exists) =>
                 /\ r.error_message # None
                 /\ TheValue(r.error_message).kind = "output file not found"
                 /\ TheValue(r.error_message).path = expected
           /\ (run.exit # 0) =>
                 /\ r.error_message # None
                 /\ TheValue(r.error_message).kind = "build failed"
                 /\ (run.stderr # "") => TheValue(r.error_message).text = run.stderr

C2_Witness ==
    /\ pc = "returned"
    /\ Len(results) = 2
    /\ lastRun # None
    /\ TheValue(lastRun).index = 2
    /\ TheValue(lastRun).exit = 0
    /\ ~results[2].success
    /\ ~results[1].success
    /\ TheValue(results[1].error_message).kind = "build failed"
    /\ TheValue(results[1].error_message).text = "E"

\* C3: a build pass in which validation or dependency installation failed returns
\* exactly one result, a failure, and has not invoked the bundler.
C3_ShortCircuit ==
    ( /\ pc = "returned"
      /\ \/ HasLogged("environment validation failed")
         \/ HasLogged("dependency installation failed") ) =>
       /\ Len(results) = 1
       /\ ~results[1].success
       /\ invoked = 0
       /\ ~HasLogged("building")

C3_Witness ==
    /\ pc = "returned"
    /\ HasLogged("environment validated")
    /\ HasLogged("dependency installation failed")
    /\ results = <<DependencyFailure>>
    /\ calls = 2

\* C4: a script found missing at its turn in the build loop has, at its own
\* position in the results, a failure with the reason "file not found".
C4_MissingScriptReported ==
    (InBuildPass /\ HasLogged("dependencies installed")) =>
       \A i \in 1..Len(main_scripts) :
          (3 + i <= Len(log) /\ log[3 + i].event = "script missing, skipped") =>
             /\ i <= Len(results)
             /\ results[i].script_name = main_scripts[i]
             /\ ~results[i].success
             /\ results[i].error_message # None
             /\ TheValue(results[i].error_message).kind = "file not found"

C4_Witness ==
    /\ pc = "returned"
    /\ Len(results) = 2
    /\ log[4].event = "script missing, skipped"
    /\ TheValue(results[1].error_message).kind = "file not found"
    /\ results[2].success

RecordsOf(files, key) == { files[f] : f \in { g \in DOMAIN files : PlatformKey(files[g]) = key } }

GroupKeys(files) == { PlatformKey(files[f]) : f \in DOMAIN files }

\* C5: a clean_packages(keep_latest = N) step deletes records only; in every
\* platform-arch group it leaves min(N, size) records, none of them older than a
\* deleted record of the group, so a group of at most N records is untouched.
C5_Pruning ==
    [][ ret'.op = "clean_packages" =>
          LET N == TheValue(arg')
          IN  /\ DOMAIN metaFiles' \subseteq DOMAIN metaFiles
              /\ \A f \in DOMAIN metaFiles' : metaFiles'[f] = metaFiles[f]
              /\ \A key \in GroupKeys(metaFiles) :
                    LET before == RecordsOf(metaFiles, key)
                        after  == RecordsOf(metaFiles', key)
                    IN  /\ Cardinality(after) <= N
                        /\ Cardinality(after) = Min(N, Cardinality(before))
                        /\ \A a \in after, d \in before \ after :
                              a.build_time >= d.build_time ]_vars

C5_Witness ==
    /\ ret.op = "clean_packages"
    /\ arg = Some(1)
    /\ ret.value # {}
    /\ Cardinality(GroupKeys(metaFiles)) = 2

\* C6 as stated: get_supported_platforms() is {windows, linux, macos}, the keys
\* CrossPlatformBuilder constructs builders for.
C6_Original ==
    /\ (ret.op = "get_supported_platforms") =>
          Range(ret.value) = { <<"windows">>, <<"linux">>, <<"macos">> }
    /\ (ret.op = "CrossPlatformBuilder") =>
          builders \cup failedCtor = { <<"windows">>, <<"linux">>, <<"macos">> }

\* C6, amended: get_supported_platforms() is the fixed list windows, linux,
\* darwin; CrossPlatformBuilder attempts a builder for exactly these keys and
\* holds one for each key whose construction did not raise.
C6_SupportedPlatforms ==
    /\ (ret.op = "get_supported_platforms") =>
          ret.value = << <<"windows">>, <<"linux">>, <<"darwin">> >>
    /\ (ret.op = "CrossPlatformBuilder") =>
          /\ builders \cup failedCtor = { <<"windows">>, <<"linux">>, <<"darwin">> }
          /\ builders \cap failedCtor = {}

C6_Witness ==
    /\ ret.op = "CrossPlatformBuilder"
    /\ builders = { <<"windows">>, <<"linux">>, <<"darwin">> }

InAnyCase(name, words) == name # None /\ TheValue(name) \in { <<w>> : w \in words }

\* C7 as stated: create_builder(name) gives the Windows, Linux or macOS variant
\* for the names windows, linux, macos in any letter case, the base builder
\* otherwise.
C7_Original ==
    (ret.op = "create_builder" /\ arg # None) =>
       ret.value.kind =
          IF InAnyCase(arg, {"windows", "Windows", "WINDOWS"}) THEN "Windows"
          ELSE IF InAnyCase(arg, {"linux", "Linux", "LINUX"}) THEN "Linux"
          ELSE IF InAnyCase(arg, {"macos", "MacOS", "MACOS"}) THEN "MacOS"
          ELSE "Base"

\* C7, amended: create_builder(name) gives the Windows, Linux or macOS variant
\* for the names windows, linux, darwin in any letter case, and the base builder
\* for every other name, macos included.
C7_FactorySelection ==
    (ret.op = "create_builder" /\ arg # None) =>
       ret.value.kind =
          IF InAnyCase(arg, {"windows", "Windows", "WINDOWS"}) THEN "Windows"
          ELSE IF InAnyCase(arg, {"linux", "Linux", "LINUX"}) THEN "Linux"
          ELSE IF InAnyCase(arg, {"darwin", "Darwin", "DARWIN"}) THEN "MacOS"
          ELSE "Base"

C7_Witness ==
    /\ ret.op = "create_builder"
    /\ arg = Some(<<"DARWIN">>)
    /\ ret.value.kind = "MacOS"
    /\ host.system = <<"Linux">>

\* C8: once build_current_platform has returned, packages/ holds the record
\* named after the project name, the version and the host's resolved platform
\* and arch, with that platform and arch, and its build_info is the summary
\* returned.
C8_RecordKeyedByResolvedPlatform ==
    (pc = "idle" /\ ret.op = "build_current_platform") =>
       LET info == get_platform_info(host)
           file == PROJECT_NAME \o project_version \o info[1] \o info[2]
       IN  /\ file \in DOMAIN metaFiles
           /\ metaFiles[file].platform = info[1]
           /\ metaFiles[file].arch = info[2]
           /\ metaFiles[file].build_info = ret.value

CrossLoopDone == pc = "cross_save" /\ idx > Len(all_results)

CrossFile(platform) == PROJECT_NAME \o project_version \o <<platform[1], "unknown">>

\* C9: when build_cross_platform has gone through its results, it has written
\* the record of a platform exactly when that platform's results contain a
\* success; the record written carries those results.
C9_RecordIffSuccess ==
    CrossLoopDone =>
       \A i \in 1..Len(all_results) :
          LET platform == all_results[i][1]
              rs       == all_results[i][2]
              written  == \E k \in 1..Len(saved) : saved[k] = CrossFile(platform)
          IN  /\ written <=> (\E j \in 1..Len(rs) : rs[j].success)
              /\ Len(saved) <= Len(all_results)
              /\ written =>
                    /\ CrossFile(platform) \in DOMAIN metaFiles
                    /\ Len(metaFiles[CrossFile(platform)].build_info.results) = Len(rs)

C9_Witness ==
    /\ CrossLoopDone
    /\ Len(all_results) = 2
    /\ all_results[1][2] = <<UnsupportedPlatform(<<"macos">>)>>
    /\ Len(all_results[2][2]) = 2
    /\ ~all_results[2][2][1].success
    /\ all_results[2][2][2].success
    /\ saved = << CrossFile(<<"windows">>) >>

ProducedResults ==
    Range(results) \cup UNION { Range(all_results[i][2]) : i \in 1..Len(all_results) }

\* C10: every BuildResult of a build pass or of build_for_platform has an error
\* message exactly when it is a failure and an executable path exactly when it
\* is a success.
C10_MessageIffFailure ==
    \A r \in ProducedResults :
       /\ (r.error_message # None) <=> ~r.success
       /\ (r.executable_path # None) <=> r.success

C10_Witness ==
    /\ CrossLoopDone
    /\ \E r \in ProducedResults : r.success /\ r.executable_path # None
    /\ \E r \in ProducedResults :
          /\ ~r.success
          /\ r.error_message # None
          /\ TheValue(r.error_message).kind = "output file not found"
    /\ \E r \in ProducedResults :
          /\ ~r.success
          /\ r.error_message # None
          /\ TheValue(r.error_message).kind = "unsupported platform"

\* The k-th index, in increasing order, of the results whose success flag is `flag`.
NthIndex(rs, flag, k) ==
    CHOOSE i \in 1..Len(rs) :
       /\ rs[i].success = flag
       /\ Cardinality({ j \in 1..i : rs[j].success = flag }) = k

\* C11: the summary of a result list has total = the number of results,
\* successful + failed = total, the names of the successes and the (script,
\* message) pairs of the failures each in the order of the list, and
\* success_rate = successful / total, which is 0 for the empty list.
C11_SummaryPartition ==
    (ret.op = "get_build_summary") =>
       LET rs == TheValue(arg)
           s  == ret.value
           nS == Cardinality({ i \in 1..Len(rs) : rs[i].success })
           nF == Cardinality({ i \in 1..Len(rs) : ~rs[i].success })
       IN  /\ s.total = Len(rs)
           /\ s.successful = nS
           /\ s.failed = nF
           /\ s.successful + s.failed = s.total
           /\ Len(s.successful_builds) = nS
           /\ Len(s.failed_builds) = nF
           /\ \A k \in 1..nS :
                 s.successful_builds[k] = rs[NthIndex(rs, TRUE, k)].script_name
           /\ \A k \in 1..nF :
                 s.failed_builds[k] = << rs[NthIndex(rs, FALSE, k)].script_name,
                                        rs[NthIndex(rs, FALSE, k)].error_message >>
           /\ s.success_rate[2] > 0
           /\ s.success_rate[1] * s.total = s.successful * s.success_rate[2]
           /\ (rs = << >>) => s.success_rate[1] = 0

C11_Witness ==
    /\ ret.op = "get_build_summary"
    /\ Len(TheValue(arg)) = 3
    /\ ret.value.successful_builds = << MAIN_SCRIPTS[2], MAIN_SCRIPTS[1] >>
    /\ ret.value.failed = 1
    /\ ret.value.success_rate = <<2, 3>>

C11_WitnessEmpty ==
    /\ ret.op = "get_build_summary"
    /\ arg = Some(<< >>)
    /\ ret.value.total = 0
    /\ ret.value.success_rate = <<0, 1>>

\* C12: a clean_build_dirs step leaves nothing of what dist/ and temp/ held,
\* leaves dist/ existing and empty, removes every subdirectory of build/, and
\* leaves every top-level .spec file of build/ as it was.
C12_CleanBuildDirs ==
    [][ (calls' = calls + 1 /\ ret'.op = "clean_build_dirs") =>
          /\ distDirs' = {}
          /\ distFiles' = {}
          /\ \A f \in otherFiles' : f.dir \notin {"dist", "temp"}
          /\ "dist" \in topDirs'
          /\ "temp" \notin topDirs'
          /\ \A n \in DOMAIN buildEntries' : ~buildEntries'[n].isdir
          /\ \A n \in DOMAIN buildEntries :
                (~buildEntries[n].isdir /\ n[2] = ".spec") =>
                   /\ n \in DOMAIN buildEntries'
                   /\ buildEntries'[n] = buildEntries[n] ]_vars

C12_Witness ==
    /\ ret.op = "clean_build_dirs"
    /\ calls = 1
    /\ log[1].detail.dirs = {"dist", "temp"}
    /\ log[1].detail.subdirs = { <<"train_model", "">> }
    /\ DOMAIN buildEntries = SpecNames
    /\ buildEntries[<<"predict", ".spec">>].mtime = 1
    /\ topDirs = {"build", "dist"}

\* C13: create_release_package returns None and leaves packages/ as it was when
\* dist/{platform}-{arch} does not exist or the format is none of zip, tar,
\* tar.gz, tgz in any letter case; otherwise it returns the archive
\* {name}-{version}-{platform}-{arch} with .zip or .tar.gz, which then exists.
C13_ReleasePackage ==
    [][ (ret'.op = "create_release_package") =>
          LET a       == TheValue(arg')
              distOk  == (a.platform \o a.arch) \in distDirs
              isZip   == a.format \in {"zip", "ZIP"}
              isTar   == a.format \in {"tar", "tar.gz", "tgz"}
              archive == << PROJECT_NAME \o a.version \o a.platform \o a.arch,
                            IF isZip THEN ".zip" ELSE ".tar.gz" >>
          IN  IF distOk /\ (isZip \/ isTar)
              THEN /\ ret'.value = Some(archive)
                   /\ archives' = archives \cup {archive}
                   /\ metaFiles' = metaFiles
              ELSE /\ ret'.value = None
                   /\ archives' = archives
                   /\ metaFiles' = metaFiles ]_vars

C13_Witness ==
    /\ ret.op = "create_release_package"
    /\ arg # None
    /\ TheValue(arg).format = "ZIP"
    /\ ret.value = Some(<< PROJECT_NAME \o <<"0.2.0">> \o <<"linux", "x86_64">>, ".zip" >>)
    /\ ret.value \subseteq archives

C13_WitnessAbsent ==
    /\ ret.op = "create_release_package"
    /\ arg # None
    /\ TheValue(arg).format = "zip"
    /\ distDirs = {}
    /\ ret.value = None
    /\ archives = {}

IsCleanSpecFilesTrue(entry) ==
    entry.event = "clean_spec_files" /\ entry.detail.keep

\* C14: of two clean_spec_files(True) calls in succession, the second deletes
\* nothing from build/, and after either of them build/ holds at most one spec
\* file per script.
C14_CleanSpecFilesIdempotent ==
    /\ \A i \in 1..(Len(log) - 1) :
          (IsCleanSpecFilesTrue(log[i]) /\ IsCleanSpecFilesTrue(log[i + 1])) =>
             log[i + 1].detail.build = {}
    /\ (ret.op = "clean_spec_files" /\ arg = Some(TRUE)) =>
          \A n \in BuildSpecFiles(buildEntries), m \in BuildSpecFiles(buildEntries) :
             (n[1] = m[1]) => n = m

C14_Witness ==
    /\ Len(log) = 2
    /\ IsCleanSpecFilesTrue(log[1])
    /\ IsCleanSpecFilesTrue(log[2])
    /\ log[1].detail.misplaced # {}
    /\ BuildSpecFiles(buildEntries) = SpecNames

\* C15: when clean_spec_files has returned, with either flag, no spec file is
\* left at the top of the working directory nor anywhere under dist/, temp/ or
\* packages/.
C15_NoMisplacedSpecs ==
    (ret.op = "clean_spec_files") =>
       \A f \in otherFiles :
          (f.name[2] = ".spec") => (f.dir = "." /\ f.sub # << >>)

C15_Witness ==
    /\ ret.op = "clean_spec_files"
    /\ arg = Some(FALSE)
    /\ Len(log) = 1
    /\ { f.dir : f \in log[1].detail.misplaced } = {".", "dist", "temp", "packages"}
    /\ \E f \in log[1].detail.misplaced : f.sub # << >>
    /\ log[1].detail.build = SpecNames
    /\ BuildSpecFiles(buildEntries) = {}

\* C16: list_packages returns one record per record file of packages/ and
\* none for a file that does not parse; one corrupt and two valid files give
\* two records.
C16_ListSkipsCorrupt ==
    (ret.op = "list_packages") =>
       /\ Len(ret.value) = Cardinality(DOMAIN metaFiles)
       /\ { BaseName(ret.value[i]) : i \in 1..Len(ret.value) } = DOMAIN metaFiles
       /\ \A i \in 1..Len(ret.value) : BaseName(ret.value[i]) \notin junkFiles

C16_Witness ==
    /\ ret.op = "list_packages"
    /\ Cardinality(junkFiles) = 1
    /\ Cardinality(DOMAIN metaFiles) = 2
    /\ Len(ret.value) = 2

\* The record read back and the record written agree on every field but
\* build_info.
SameButBuildInfo(r, w) ==
    /\ r.name = w.name
    /\ r.version = w.version
    /\ r.platform = w.platform
    /\ r.arch = w.arch
    /\ r.build_time = w.build_time

\* C17 as stated: a record read back by list_packages is identical to the
\* record written, build_info included.
C17_Original ==
    (ret.op = "list_packages") =>
       \A i \in 1..Len(ret.value) :
          LET r == ret.value[i]
              w == metaFiles[BaseName(r)]
          IN  /\ SameButBuildInfo(r, w)
              /\ r.build_info = w.build_info

\* C17, amended: a record read back by list_packages has the name, version,
\* platform, arch and build_time of the record written, whatever the time of
\* reading, and the build_info written except that each (script, message) pair
\* of failed_builds is read back as a two-element list.
C17_RoundTrip ==
    (ret.op = "list_packages") =>
       \A i \in 1..Len(ret.value) :
          LET r == ret.value[i]
              w == metaFiles[BaseName(r)]
          IN  /\ SameButBuildInfo(r, w)
              /\ IF w.build_info = << >> THEN r.build_info = << >>
                 ELSE /\ DOMAIN r.build_info = DOMAIN w.build_info
                      /\ \A key \in DOMAIN w.build_info \ {"failed_builds"} :
                            r.build_info[key] = w.build_info[key]
                      /\ Len(r.build_info.failed_builds) = Len(w.build_info.failed_builds)
                      /\ \A j \in 1..Len(w.build_info.failed_builds) :
                            r.build_info.failed_builds[j] =
                               << "list", w.build_info.failed_builds[j][1],
                                  w.build_info.failed_builds[j][2] >>

C17_Witness ==
    /\ ret.op = "list_packages"
    /\ Len(ret.value) = 2
    /\ clock = 1
    /\ ret.value[1].build_time = 0
    /\ ret.value[1].build_info # << >>
    /\ ret.value[1].build_info.failed = 1
    /\ ret.value[2].build_info = << >>

SaveEntries(key) ==
    { i \in 1..Len(log) : log[i].event = "save_metadata" /\ BaseName(log[i].detail) = key }

\* C18: after any sequence of writes packages/ holds, for every key
\* {name}-{version}-{platform}-{arch} written, one record, the one of the last
\* write with that key, and no other record.
C18_LastWriteWins ==
    /\ DOMAIN metaFiles = { BaseName(log[i].detail) : i \in 1..Len(log) }
    /\ \A key \in DOMAIN metaFiles :
          \E i \in SaveEntries(key) :
             /\ \A j \in SaveEntries(key) : j <= i
             /\ metaFiles[key] = log[i].detail

C18_Witness ==
    /\ Len(log) = 3
    /\ SaveEntries(BaseName(log[1].detail)) = {1, 3}
    /\ log[1].detail # log[3].detail
    /\ log[1].detail.build_time # log[3].detail.build_time
    /\ metaFiles[BaseName(log[1].detail)] = log[3].detail
    /\ metaFiles[BaseName(log[2].detail)] = log[2].detail

\* C19: build_for_platform for a platform that has no builder gives that
\* platform exactly one result, a failure, and the step cleans no directory,
\* validates nothing, installs nothing and runs no bundler.
C19_UnsupportedFailsFast ==
    [][ ( /\ pc = "cross_next"
          /\ todo # << >>
          /\ Head(todo) \notin builders
          /\ todo' # todo ) =>
          /\ \E i \in 1..Len(all_results') :
                /\ all_results'[i][1] = Head(todo)
                /\ Len(all_results'[i][2]) = 1
                /\ ~all_results'[i][2][1].success
          /\ pc' = "cross_next"
          /\ UNCHANGED << distDirs, distFiles, topDirs, buildEntries, otherFiles >>
          /\ UNCHANGED << log, invoked, results, lastRun, scriptsOnDisk >> ]_vars

C19_Witness ==
    /\ pc = "cross_next"
    /\ todo = << >>
    /\ <<"linux">> \in failedCtor
    /\ all_results = << << <<"linux">>, <<UnsupportedPlatform(<<"linux">>)>> >> >>
    /\ topDirs = {}
    /\ log = << >>
    /\ invoked = 0

\* C20: for every script, platform and arch the command of get_build_command
\* has exactly one element that begins with --name=, and its last element is
\* the script path.
C20_BuildCommandShape ==
    (ret.op = "get_build_command") =>
       LET cmd == ret.value
           a   == TheValue(arg)
       IN  /\ Cardinality({ i \in 1..Len(cmd) : cmd[i][1] = "--name=" }) = 1
           /\ cmd[Len(cmd)] = a.script_name
           /\ \A i \in 1..(Len(cmd) - 1) : cmd[i] # a.script_name

C20_Witness ==
    /\ ret.op = "get_build_command"
    /\ TheValue(arg).script_name = <<"name", ".py">>
    /\ TheValue(arg).platform = <<"windows">>
    /\ Len(ret.value) = 36
    /\ ret.value[8] = <<"--name=", "name">>
    /\ ret.value[9] = <<"--console">>
    /\ ret.value[36] = <<"name", ".py">>

\* C21: for every platform name that is not one of the keys windows, linux and
\* macos, get_platform_config returns the entry it returns for linux; the call
\* always returns an entry.
C21_PlatformDefault ==
    (ret.op = "get_platform_config") =>
       /\ DOMAIN ret.value = {"console", "executable_suffix", "additional_options"}
       /\ (TheValue(arg) \notin ConfigKeys) =>
             ret.value = get_platform_config(<<"linux">>)

C21_Witness ==
    /\ ret.op = "get_platform_config"
    /\ arg = Some(<<"darwin">>)
    /\ ret.value.executable_suffix = ""
    /\ ret.value.additional_options = << >>

\* The step of a build pass an entry of the log belongs to.
StepRank(event) ==
    CASE event = "build dirs cleaned" -> 1
      [] event \in {"environment validated", "environment validation failed"} -> 2
      [] event \in {"dependencies installed", "dependency installation failed"} -> 3
      [] event \in {"building", "script missing, skipped"} -> 4
      [] OTHER -> 0

\* C22: the steps of a build pass occur in the order clean, validate, install
\* dependencies, per-script builds, return: each of the first three steps
\* happens at most once and in that order, dependency installation is tried
\* only after a successful validation, the bundler runs only after a successful
\* dependency installation, and the pass returns after one of the three
\* endings (failed validation, failed installation, end of the loop).
C22_StepOrder ==
    /\ \A i \in 1..Len(log) : StepRank(log[i].event) = Min(i, 4)
    /\ (Len(log) >= 3) => log[2].event = "environment validated"
    /\ (Len(log) >= 4) => log[3].event = "dependencies installed"
    /\ (invoked > 0) => (Len(log) >= 4 /\ pc \in {"loop", "returned"})
    /\ (pc = "cleaned") => Len(log) = 1
    /\ (pc = "validated") => Len(log) = 2
    /\ (pc = "loop") => Len(log) = 2 + idx
    /\ (pc = "returned") =>
          \/ Len(log) = 2 /\ log[2].event = "environment validation failed"
          \/ Len(log) = 3 /\ log[3].event = "dependency installation failed"
          \/ Len(log) = 3 + Len(main_scripts) /\ log[3].event = "dependencies installed"

C22_Witness ==
    /\ pc = "returned"
    /\ invoked = 2
    /\ Len(log) = 5
    /\ log[1].event = "build dirs cleaned"
    /\ log[2].event = "environment validated"
    /\ log[3].event = "dependencies installed"
    /\ log[4].event = "building"
    /\ log[5].event = "building"

\* C23: a build pass that has started returns, unless a bundler process never
\* returns; and once a bundler process never returns the pass stays where it
\* is for ever: it does not return, no result is added, no later script is
\* handed to the bundler.
C23_HangsWithBundler ==
    /\ (pc = "start") ~> (pc = "returned" \/ pc = "hung")
    /\ [][ (pc = "hung") =>
             /\ pc' = "hung"
             /\ UNCHANGED << results, idx, invoked, log, ret, fsVars >> ]_vars

C23_Witness ==
    /\ pc = "hung"
    /\ Len(main_scripts) = 2
    /\ idx = 1
    /\ results = << >>
    /\ invoked = 1
    /\ ret = NoReturn

\* dist/{host platform}-{host arch}/{stem}{suffix of the host platform}
HostExecutable(script) ==
    << get_platform_info(host)[1] \o get_platform_info(host)[2],
       << Stem(script), get_platform_config(get_platform_info(host)[1]).executable_suffix >> >>

\* C24: in build_cross_platform the builder of every platform key has the
\* host's platform and arch, so every successful result of every key names the
\* executable dist/{host platform}-{host arch}/{script}, and the pass of each
\* platform begins by removing dist/ with whatever the pass of the platform
\* before it left there.
C24_BuildersResolveHost ==
    /\ [] ( (op = "build_cross_platform") =>
              /\ (builder # None) =>
                    /\ TheValue(builder).platform_name = get_platform_info(host)[1]
                    /\ TheValue(builder).arch = get_platform_info(host)[2]
              /\ \A i \in 1..Len(all_results) : \A j \in 1..Len(all_results[i][2]) :
                    LET r == all_results[i][2][j]
                    IN  r.success => r.executable_path = Some(HostExecutable(r.script_name))
              /\ \A f \in distFiles :
                    f.path[1] = get_platform_info(host)[1] \o get_platform_info(host)[2] )
    /\ [][ (op = "build_cross_platform" /\ pc = "start" /\ pc' # pc) =>
              (pc' = "cleaned" /\ distFiles' = {} /\ distDirs' = {}) ]_vars

C24_Witness ==
    /\ op = "build_cross_platform"
    /\ pc = "cleaned"
    /\ builder # None
    /\ TheValue(builder).kind = "Linux"
    /\ Len(all_results) = 1
    /\ all_results[1][1] = <<"windows">>
    /\ Len(all_results[1][2]) >= 1
    /\ all_results[1][2][1].success
    /\ all_results[1][2][1].executable_path
          = Some(<< <<"linux", "x86_64">>, <<"generate_data", "">> >>)
    /\ distFiles = {}

\* C25: clean_spec_files(keep_latest_only=True) deletes no spec file at the top
\* of build/: the files are grouped by stem, two spec files of one directory
\* never have the same stem, so each group is one file, which is kept.
C25_KeepLatestDeletesNothing ==
    [][ (calls' = calls + 1 /\ ret'.op = "clean_spec_files" /\ arg' = Some(TRUE)) =>
           /\ BuildSpecFiles(buildEntries') = BuildSpecFiles(buildEntries)
           /\ \A n \in BuildSpecFiles(buildEntries) : buildEntries'[n] = buildEntries[n]
           /\ \A n \in BuildSpecFiles(buildEntries) :
                 { m \in BuildSpecFiles(buildEntries) : Stem(m) = Stem(n) } = {n} ]_vars

C25_Witness ==
    /\ ret.op = "clean_spec_files"
    /\ arg = Some(TRUE)
    /\ Len(log) = 1
    /\ log[1].detail.build = {}
    /\ Cardinality(BuildSpecFiles(buildEntries)) >= 2
    /\ \E n \in BuildSpecFiles(buildEntries), m \in BuildSpecFiles(buildEntries) :
          buildEntries[n].mtime < buildEntries[m].mtime

\* C26: a manager with one project name and one version, starting from an
\* empty packages/, never has two records of the same platform-arch group,
\* whatever build_current_platform, build_cross_platform and clean_packages
\* calls were made; and clean_packages(keep_latest) with keep_latest >= 1
\* removes no record, and with it no archive.
C26_OneRecordPerGroup ==
    /\ \A f \in DOMAIN metaFiles, g \in DOMAIN metaFiles :
          (PlatformKey(from_dict(metaFiles[f], clock))
             = PlatformKey(from_dict(metaFiles[g], clock))) => f = g
    /\ (ret.op = "clean_packages" /\ TheValue(arg) >= 1) => ret.value = {}

C26_Witness ==
    /\ ret.op = "clean_packages"
    /\ arg = Some(1)
    /\ ret.value = {}
    /\ calls = 2
    /\ Cardinality(DOMAIN metaFiles) >= 2
    /\ clock = 1
    /\ archives # {}

\* C27: a build pass that returns the validation failure or the dependency
\* failure has cleaned the directories first: dist/ exists, holds no platform
\* directory and no executable, whatever earlier passes left there, and the
\* bundler was not run.
C27_ShortCircuitHasCleaned ==
    (pc = "returned" /\ results \in { <<ValidationFailure>>, <<DependencyFailure>> }) =>
       /\ "dist" \in topDirs
       /\ "build" \in topDirs
       /\ distDirs = {}
       /\ distFiles = {}
       /\ invoked = 0
       /\ log[1].event = "build dirs cleaned"

C27_Witness ==
    /\ pc = "returned"
    /\ calls = 2
    /\ results = <<ValidationFailure>>
    /\ distFiles = {}
    /\ "dist" \in topDirs
    /\ \E f \in DOMAIN metaFiles : metaFiles[f].build_info.successful = 1

\* C28: when a configured script is missing as the pass validates the
\* environment, the pass returns the validation failure alone; so a pass that
\* goes on has seen every script on disk, and a "file not found" result is
\* given only in a pass that validated, to a script that is gone at its turn
\* in the loop.
C28_MissingAtValidation ==
    /\ [][ (pc = "cleaned" /\ pc' # pc /\ ~AllExist(main_scripts, scriptsOnDisk)) =>
              (pc' = "returned" /\ results' = <<ValidationFailure>> /\ invoked' = 0) ]_vars
    /\ [][ (pc = "cleaned" /\ pc' = "validated") =>
              AllExist(main_scripts, scriptsOnDisk) ]_vars
    /\ [][ (pc = "loop" /\ Len(results') = Len(results) + 1
              /\ results'[Len(results')] = MissingScript(results'[Len(results')].script_name)) =>
              /\ main_scripts[idx] \notin scriptsOnDisk
              /\ results'[Len(results')].script_name = main_scripts[idx]
              /\ log[2].event = "environment validated" ]_vars

C28_Witness ==
    /\ pc = "returned"
    /\ Len(main_scripts) = 2
    /\ Len(results) = 2
    /\ results[1].success
    /\ results[2] = MissingScript(main_scripts[2])
    /\ log[2].event = "environment validated"
    /\ main_scripts[2] \notin scriptsOnDisk

C28_WitnessValidation ==
    /\ pc = "returned"
    /\ ~AllExist(main_scripts, scriptsOnDisk)
    /\ results = <<ValidationFailure>>
    /\ Len(log) = 2

\* A record as build_cross_platform writes it: its build_info is the list of
\* per-script results.
WrittenByCross(m) == "results" \in DOMAIN m.build_info

\* C29: every record build_cross_platform writes has the platform key as its
\* platform and "unknown" as its arch; the record build_current_platform
\* writes on the same host has the host's arch, so the two never have the same
\* key, and get_package_info(platform, host arch) never returns a record
\* written by build_cross_platform.
C29_CrossRecordsUnknownArch ==
    /\ \A f \in DOMAIN metaFiles :
          LET m == metaFiles[f]
          IN  IF WrittenByCross(m)
              THEN /\ m.arch = <<"unknown">>
                   /\ m.platform \in Range(get_supported_platforms)
                   /\ f = PROJECT_NAME \o project_version \o m.platform \o <<"unknown">>
              ELSE /\ m.platform = get_platform_info(host)[1]
                   /\ m.arch = get_platform_info(host)[2]
                   /\ m.arch # <<"unknown">>
    /\ (ret.op = "get_package_info" /\ ret.value.arch = get_platform_info(host)[2]) =>
          (ret.value.found # None => ~WrittenByCross(TheValue(ret.value.found)))

C29_Witness ==
    /\ ret.op = "get_package_info"
    /\ ret.value.platform = <<"linux">>
    /\ ret.value.arch = <<"x86_64">>
    /\ ret.value.found # None
    /\ ~WrittenByCross(TheValue(ret.value.found))
    /\ \E f \in DOMAIN metaFiles :
          /\ WrittenByCross(metaFiles[f])
          /\ metaFiles[f].platform = <<"linux">>
          /\ metaFiles[f].arch = <<"unknown">>

\* C30: build_cross_platform called with the empty list does what it does when
\* called with no list: every platform whose builder was constructed is set to
\* be built, in the order of the supported platforms, where building the
\* platforms of the list would build none.
C30_EmptyListBuildsAll ==
    [][ (pc = "idle" /\ pc' = "cross_next" /\ arg' \in { None, Some(<< >>) }) =>
           /\ todo' = SeqOfSet(get_supported_platforms, builders')
           /\ Len(todo') = Cardinality(builders')
           /\ all_results' = << >> ]_vars

C30_Witness ==
    /\ op = "build_cross_platform"
    /\ pc = "cross_next"
    /\ arg = Some(<< >>)
    /\ all_results = << >>
    /\ builders = Range(get_supported_platforms)
    /\ todo = << <<"windows">>, <<"linux">>, <<"darwin">> >>

====
